---- MODULE Spec2Model ----
(***************************************************************************)
(* A model of split-lines-bench-rs (src/src/main.rs): the slice-family     *)
(* and compressed-family newline-scanning kernels and the benchmark        *)
(* harness that drives them.                                               *)
(*                                                                         *)
(* An input (&str) is its length together with the positions of its '\n'   *)
(* and '\r' bytes; every other byte is payload.  A view (&'input str) is   *)
(* the half-open byte range [s, e) of the input it borrows.  A vector mask *)
(* (the result of movemask / cmpeq_epi8_mask) is the set of its set bits.  *)
(* Every loop of a kernel is a cycle of the state machine, one action per  *)
(* pass of the loop; the loop over the bits of one mask is an operator.    *)
(***************************************************************************)
EXTENDS Integers, Sequences, FiniteSets, TLC

VARIABLES
    fn,          \* the function under execution
    input,       \* its input argument
    pc,          \* its position: "start", "blocks", "chunks", "outer", "inner", "done"
    chunk_i,     \* local chunk_i / chunk_idx
    write_i,     \* local write_i
    line_start,  \* local line_start (slice family)
    blk,         \* index of the current 64 KiB block (compressed family)
    offset_v,    \* local offset_v (avx512_compress), one of its equal lanes
    iter_count,  \* local iter_count (interleaved kernels)
    iter_i,      \* the passes made of `for _ in 0..iter_count`
    out,         \* the output argument: Vec<&str>, or LineIndex
    out_arr,     \* the written prefix of the reserved spare-capacity window
    reserved,    \* the size of that window (get_unchecked_mut(..reserved))
    out0,        \* history: the output argument as it was at the call
    fresh,       \* history: the same call's output had it started from empty
    ovf,         \* history: a non-wrapping u16 operation overflowed
    wrapped,     \* history: the wrapping u16 operations that wrapped
    \* fn main
    hpc,                    \* the position of main
    features,               \* what is_x86_feature_detected! reports
    nightly,                \* whether the build has feature = "nightly"
    stage_i,                \* the index of the stage of `for .. in benchmark_stages`
    case_i,                 \* the index of the case of `for .. in .._bench_cases`
    b_vec,                  \* local b: the scratch buffer
    b_len,                  \* local len: the stage's active length of b
    out_slice_buf,
    pool_out_slice_buf,
    out_slice_cap,          \* the capacity of the allocation that
                            \* pool_out_slice_buf and out_slice_buf hand over
    out_compressed_buf,
    test_compressed_buf,
    cur_slice_thrpts,       \* per throughput pushed, the label it was measured for
    cur_compressed_thrpts,
    slice_thrpts,
    compressed_thrpts,
    stdout,                 \* the lines printed
    feat_ok,                \* history: the last result of a feat_checker() call
    asserted,               \* history: the assert!s evaluated, and their outcome
    \* a caller that calls a function again, as mod tests and main do
    spare,       \* what a slot of spare capacity holds that the call has not
                 \* written
    run_i,       \* the number of the call, from 1
    first_out,   \* the output of the first call
    \* fn prep_vec_range called on its own
    const_M,     \* const M: min bytes per line
    const_N      \* const N: max bytes per line

kvars == <<fn, input, pc, chunk_i, write_i, line_start, blk, offset_v,
           iter_count, iter_i, out, out_arr, reserved, out0, fresh, ovf, wrapped>>

hvars == <<hpc, features, nightly, stage_i, case_i, b_vec, b_len, out_slice_buf,
           pool_out_slice_buf, out_slice_cap, out_compressed_buf, test_compressed_buf,
           cur_slice_thrpts, cur_compressed_thrpts, slice_thrpts,
           compressed_thrpts, stdout, feat_ok, asserted>>

tvars == <<spare, run_i, first_out, const_M, const_N>>

vars == <<kvars, hvars, tvars>>

\* main not running: a kernel is called on its own
HarnessIdle ==
    /\ hpc = "none"
    /\ features = {}
    /\ nightly = FALSE
    /\ stage_i = 0
    /\ case_i = 0
    /\ b_vec = <<>>
    /\ b_len = 0
    /\ out_slice_buf = <<>>
    /\ pool_out_slice_buf = <<>>
    /\ out_slice_cap = 0
    /\ out_compressed_buf = <<>>
    /\ test_compressed_buf = <<>>
    /\ cur_slice_thrpts = <<>>
    /\ cur_compressed_thrpts = <<>>
    /\ slice_thrpts = <<>>
    /\ compressed_thrpts = <<>>
    /\ stdout = <<>>
    /\ feat_ok = [family |-> "none", stage |-> 0, case |-> 0, result |-> TRUE]
    /\ asserted = << >>

-----------------------------------------------------------------------------
(* Bytes and inputs *)

NL == 10
CR == 13
PAYLOAD == 97

\* input.as_bytes()[i]
ByteAt(inp, i) ==
    IF i \in inp.nl THEN NL ELSE IF i \in inp.cr THEN CR ELSE PAYLOAD

\* off payload bytes, then the bytes of b, then suf payload bytes
Embed(off, b, suf) ==
    [len |-> off + Len(b) + suf,
     nl  |-> {off + i - 1 : i \in {j \in 1..Len(b) : b[j] = NL}},
     cr  |-> {off + i - 1 : i \in {j \in 1..Len(b) : b[j] = CR}}]

\* len bytes, all '\n' except at the positions in holes
Dense(len, holes) ==
    [len |-> len, nl |-> (0..(len - 1)) \ holes, cr |-> {}]

\* len bytes, '\n' exactly at the positions in nls (those below len)
Sparse(len, nls) ==
    [len |-> len, nl |-> {p \in nls : p < len}, cr |-> {}]

\* the positions in S, all in lo..hi-1, in increasing order
RECURSIVE Sorted(_, _, _)
Sorted(S, lo, hi) ==
    IF S = {} THEN <<>>
    ELSE IF hi - lo <= 1 THEN <<lo>>
    ELSE LET mid == (lo + hi) \div 2
         IN  Sorted({x \in S : x < mid}, lo, mid)
               \o Sorted({x \in S : x >= mid}, mid, hi)

\* a view: the byte range [s, e) of the input
View(s, e) == [s |-> s, e |-> e]

\* the content of a slot of spare capacity that was never written
Uninit == -1

\* a function called once, into memory never written
OneCall ==
    /\ spare = Uninit
    /\ run_i = 1
    /\ first_out = << >>
    /\ const_M = 0
    /\ const_N = 0

\* the view a panicking index expression never yields
Panicked == [s |-> -1, e |-> -1]

-----------------------------------------------------------------------------
(* Bit masks, as the sets of their set bits *)

\* _mm_movemask_epi8(_mm_cmpeq_epi8(load(ptr + base), nl_v)) over n lanes
movemask(inp, base, n) == {k \in 0..(n - 1) : ByteAt(inp, base + k) = NL}

\* mask << s, in a 64-bit word
shl(mask, s) == {k + s : k \in {j \in mask : j + s < 64}}

\* mask.trailing_zeros() of a non-zero mask
trailing_zeros(mask) == CHOOSE k \in mask : \A j \in mask : k <= j

\* mask & (mask - 1): clears the lowest set bit
clear_lowest(mask) == mask \ {trailing_zeros(mask)}

\* mask.count_ones()
count_ones(mask) == Cardinality(mask)

\* x kept at its full width
AsU16_untruncated(x) == x

\* x as u16
AsU16(x) == x % 65536

\* x - x % m: a multiple of m, not of m + 1
and_not_modulo(x, m) == x - (x % m)

\* x & !m for m = 2^k - 1: clears the k low bits of x
and_not(x, m) == x - (x % (m + 1))

-----------------------------------------------------------------------------
(* Vec: the initialised elements are a sequence; reserve(n) provides a     *)
(* window of n slots of spare capacity right after them.                   *)

\* the writes of vals[1], vals[2], .. to the slots i, i + 1, .. of the window
WriteSeq(arr, i, vals) ==
    [k \in 1..(IF Len(arr) > i + Len(vals) THEN Len(arr) ELSE i + Len(vals)) |->
        IF i < k /\ k <= i + Len(vals) THEN vals[k - i]
        ELSE IF k <= Len(arr) THEN arr[k]
        ELSE spare]

\* the new length counted from the window: the elements before it are lost
set_len_of_window(vec, arr, n) == [i \in 1..(n - Len(vec)) |-> arr[i]]

\* vec.set_len(n) after the window arr was written
set_len(vec, arr, n) ==
    [i \in 1..n |->
        IF i <= Len(vec) THEN vec[i]
        ELSE IF i - Len(vec) <= Len(arr) THEN arr[i - Len(vec)]
        ELSE spare]

\* &input[s..e]: panics unless s <= e <= len
index_str(inp, s, e) ==
    IF s <= e /\ e <= inp.len THEN View(s, e) ELSE Panicked

\* input.get_unchecked(s..e)
get_unchecked(inp, s, e) == View(s, e)

-----------------------------------------------------------------------------
(* mod slice *)

\* input.lines(): split_inclusive('\n'), then strip one '\n' and, only
\* after a stripped '\n', one '\r'
lines(inp) ==
    LET p == Sorted(inp.nl, 0, inp.len)
        m == Len(p)
        start(j) == IF j = 1 THEN 0 ELSE p[j - 1] + 1
        last == start(m + 1)
        terminated ==
            [j \in 1..m |->
                IF p[j] > start(j) /\ (p[j] - 1) \in inp.cr
                THEN View(start(j), p[j] - 1)
                ELSE View(start(j), p[j])]
    IN  IF last < inp.len THEN Append(terminated, View(last, inp.len))
        ELSE terminated

\* slice::std
std(inp) == lines(inp)

\* slice::std_reuse
std_reuse(inp, o) == o \o lines(inp)

\* the values bit_pos takes in
\*   while mask != 0 { bit_pos = mask.trailing_zeros(); ..; mask &= mask - 1 }
RECURSIVE bit_positions(_)
bit_positions(mask) ==
    IF mask = {} THEN <<>>
    ELSE <<trailing_zeros(mask)>> \o bit_positions(clear_lowest(mask))

\* line_start = line_end, the newline itself kept
line_start_at_end(ends, ls, j) == IF j = 1 THEN ls ELSE ends[j - 1]

\* the line_start of the j-th pass of a loop that meets the line ends
\* ends[1], ends[2], .. and sets line_start = line_end + 1 after each
line_start_at(ends, ls, j) == IF j = 1 THEN ls ELSE ends[j - 1] + 1

\* the while-mask loop of sse2 and avx2: push &input[line_start..line_end]
push_checked(inp, mask, base, ls, o) ==
    LET bits == bit_positions(mask)
        ends == [j \in 1..Len(bits) |-> base + bits[j]]
    IN  [out |-> o \o [j \in 1..Len(ends) |->
                         index_str(inp, line_start_at(ends, ls, j), ends[j])],
         line_start |-> line_start_at(ends, ls, Len(ends) + 1)]

\* the while-mask loop of sse2_unsafe and avx2_unsafe: get_unchecked
push_unchecked(inp, mask, base, ls, o) ==
    LET bits == bit_positions(mask)
        ends == [j \in 1..Len(bits) |-> base + bits[j]]
    IN  [out |-> o \o [j \in 1..Len(ends) |->
                         get_unchecked(inp, line_start_at(ends, ls, j), ends[j])],
         line_start |-> line_start_at(ends, ls, Len(ends) + 1)]

\* the while-mask loop of the unroll kernels: raw writes at write_i
write_views(inp, mask, base, ls, arr, wi) ==
    LET bits == bit_positions(mask)
        ends == [j \in 1..Len(bits) |-> base + bits[j]]
    IN  [out_arr |-> WriteSeq(arr, wi,
                        [j \in 1..Len(ends) |->
                          get_unchecked(inp, line_start_at(ends, ls, j), ends[j])]),
         write_i |-> wi + Len(ends),
         line_start |-> line_start_at(ends, ls, Len(ends) + 1)]

\* the scalar loop of slice::x86_64::tail over the bytes i in from..len-1:
\* at each '\n', push input[line_start..i] and set line_start = i + 1
tail_loop(inp, from, stop, ls, o) ==
    LET ends == Sorted({i \in inp.nl : from <= i /\ i < stop}, from, stop)
    IN  [out |-> o \o [j \in 1..Len(ends) |->
                         get_unchecked(inp, line_start_at(ends, ls, j), ends[j])],
         line_start |-> line_start_at(ends, ls, Len(ends) + 1)]

\* tail_last without the emptiness test
tail_last_always(inp, r) ==
    Append(r.out, get_unchecked(inp, r.line_start, inp.len))

\* the last line of slice::x86_64::tail: omitted if empty
tail_last(inp, r) ==
    IF r.line_start # inp.len
    THEN Append(r.out, get_unchecked(inp, r.line_start, inp.len))
    ELSE r.out

\* slice::x86_64::tail(line_start, chunk_size, input, out)
slice_tail(ls, chunk_size, inp, o) ==
    tail_last(inp,
              tail_loop(inp, and_not(inp.len, chunk_size - 1), inp.len, ls, o))

-----------------------------------------------------------------------------
(* The slice kernels as state machines.  fresh follows out through the    *)
(* same operations from an empty vector.                                   *)

\* a call of slice::std: input.lines().collect() into a new vector
call_std ==
    /\ fn = "slice::std" /\ pc = "start"
    /\ out' = std(input)
    /\ fresh' = std(input)
    /\ pc' = "done"
    /\ UNCHANGED <<fn, input, chunk_i, write_i, line_start, blk, offset_v,
                   iter_count, iter_i, out_arr, reserved, out0, ovf, wrapped>>
    /\ UNCHANGED <<hvars, tvars>>

\* a call of slice::std_reuse
call_std_reuse ==
    /\ fn = "slice::std_reuse" /\ pc = "start"
    /\ out' = std_reuse(input, out)
    /\ fresh' = std_reuse(input, fresh)
    /\ pc' = "done"
    /\ UNCHANGED <<fn, input, chunk_i, write_i, line_start, blk, offset_v,
                   iter_count, iter_i, out_arr, reserved, out0, ovf, wrapped>>
    /\ UNCHANGED <<hvars, tvars>>

\* One pass of `for (chunk_i, chunk) in chunks_exact(W).enumerate()` of the
\* pushing kernels, or, the chunks exhausted, the call of tail
SliceScan(name, W, checked) ==
    /\ fn = name /\ pc = "chunks"
    /\ IF chunk_i < input.len \div W
       THEN LET mask == movemask(input, chunk_i * W, W)
                push(o) ==
                    IF checked
                    THEN push_checked(input, mask, chunk_i * W, line_start, o)
                    ELSE push_unchecked(input, mask, chunk_i * W, line_start, o)
                r == push(out)
                f == push(fresh)
            IN  /\ out' = r.out
                /\ fresh' = f.out
                /\ line_start' = r.line_start
                /\ chunk_i' = chunk_i + 1
                /\ pc' = "chunks"
       ELSE /\ out' = slice_tail(line_start, W, input, out)
            /\ fresh' = slice_tail(line_start, W, input, fresh)
            /\ pc' = "done"
            /\ UNCHANGED <<line_start, chunk_i>>
    /\ UNCHANGED <<fn, input, write_i, blk, offset_v, iter_count, iter_i,
                   out_arr, reserved, out0, ovf, wrapped>>
    /\ UNCHANGED <<hvars, tvars>>

\* slice::x86_64::sse2
slice_sse2 == SliceScan("slice::x86_64::sse2", 16, TRUE)

\* slice::x86_64::sse2_unsafe
slice_sse2_unsafe == SliceScan("slice::x86_64::sse2_unsafe", 16, FALSE)

\* slice::x86_64::avx2
slice_avx2 == SliceScan("slice::x86_64::avx2", 32, TRUE)

\* slice::x86_64::avx2_unsafe
slice_avx2_unsafe == SliceScan("slice::x86_64::avx2_unsafe", 32, FALSE)

\* The head of `while chunk_i < stop_chunk_i` of an unroll kernel: reserve a
\* window of 256 slots, or, the chunks exhausted, the call of tail
SliceUnrollOuter(name, W) ==
    /\ fn = name /\ pc = "outer"
    /\ IF chunk_i < input.len \div W
       THEN /\ write_i' = 0
            /\ out_arr' = <<>>
            /\ reserved' = 256
            /\ pc' = "inner"
            /\ UNCHANGED <<out, fresh>>
       ELSE /\ out' = slice_tail(line_start, W, input, out)
            /\ fresh' = slice_tail(line_start, W, input, fresh)
            /\ pc' = "done"
            /\ UNCHANGED <<write_i, out_arr, reserved>>
    /\ UNCHANGED <<fn, input, chunk_i, line_start, blk, offset_v, iter_count,
                   iter_i, out0, ovf, wrapped>>
    /\ UNCHANGED <<hvars, tvars>>

\* One pass of the inner loop of an unroll kernel over the chunk whose mask
\* is mask, or, its guard false, out.set_len(out.len() + write_i)
SliceUnrollInner(name, W, guard, mask) ==
    /\ fn = name /\ pc = "inner"
    /\ IF guard /\ chunk_i < input.len \div W
       THEN LET r == write_views(input, mask, chunk_i * W, line_start,
                                 out_arr, write_i)
            IN  /\ out_arr' = r.out_arr
                /\ write_i' = r.write_i
                /\ line_start' = r.line_start
                /\ chunk_i' = chunk_i + 1
                /\ pc' = "inner"
                /\ UNCHANGED <<out, fresh>>
       ELSE /\ out' = set_len(out, out_arr, Len(out) + write_i)
            /\ fresh' = set_len(fresh, out_arr, Len(fresh) + write_i)
            /\ pc' = "outer"
            /\ UNCHANGED <<out_arr, write_i, line_start, chunk_i>>
    /\ UNCHANGED <<fn, input, blk, offset_v, iter_count, iter_i, reserved,
                   out0, ovf, wrapped>>
    /\ UNCHANGED <<hvars, tvars>>

\* mask0 | (mask1 << 16) | (mask2 << 32) | (mask3 << 48) of four 16-byte loads
mask_x4(inp, base) ==
    movemask(inp, base, 16)
      \cup shl(movemask(inp, base + 16, 16), 16)
      \cup shl(movemask(inp, base + 32, 16), 32)
      \cup shl(movemask(inp, base + 48, 16), 48)

\* movemask(v1) as u64: the i32 sign-extended when lane 31 is set
mask_x2_sign_extended(inp, base) ==
    shl(movemask(inp, base + 32, 32), 32) \cup movemask(inp, base, 32)
      \cup (IF 31 \in movemask(inp, base, 32) THEN 32..63 ELSE {})

\* (movemask(v2) as u32 as u64) << 32 | (movemask(v1) as u32 as u64)
mask_x2(inp, base) ==
    shl(movemask(inp, base + 32, 32), 32) \cup movemask(inp, base, 32)

\* slice::x86_64::sse2_unroll
slice_sse2_unroll_outer == SliceUnrollOuter("slice::x86_64::sse2_unroll", 16)

slice_sse2_unroll_inner ==
    SliceUnrollInner("slice::x86_64::sse2_unroll", 16, write_i < 256 - 16,
                     movemask(input, chunk_i * 16, 16))

\* slice::x86_64::sse2_unrollx4
slice_sse2_unrollx4_outer == SliceUnrollOuter("slice::x86_64::sse2_unrollx4", 64)

slice_sse2_unrollx4_inner ==
    SliceUnrollInner("slice::x86_64::sse2_unrollx4", 64, write_i < 256 - 64,
                     mask_x4(input, chunk_i * 64))

\* slice::x86_64::avx2_unroll
slice_avx2_unroll_outer == SliceUnrollOuter("slice::x86_64::avx2_unroll", 32)

slice_avx2_unroll_inner ==
    SliceUnrollInner("slice::x86_64::avx2_unroll", 32, write_i <= 256 - 32,
                     movemask(input, chunk_i * 32, 32))

\* slice::x86_64::avx2_unrollx2
slice_avx2_unrollx2_outer == SliceUnrollOuter("slice::x86_64::avx2_unrollx2", 64)

slice_avx2_unrollx2_inner ==
    SliceUnrollInner("slice::x86_64::avx2_unrollx2", 64, write_i <= 256 - 64,
                     mask_x2(input, chunk_i * 64))

-----------------------------------------------------------------------------
(* The calls of the slice family that are checked *)

\* bound: the longest exhaustively enumerated byte string
MaxTiny == 3

\* bound: the most views the output argument holds at the call
MaxPre == 1

Bytes == {PAYLOAD, NL, CR}

TinyStrings == UNION {[1..n -> Bytes] : n \in 0..MaxTiny}

\* every tiny string, at the start and across the 16-, 32- and 64-byte chunk
\* boundaries, followed by nothing, by a partial chunk and by whole chunks
Embedded ==
    {Embed(off, b, suf) :
        off \in {0, 15, 31, 63}, b \in TinyStrings, suf \in {0, 14, 66}}

\* inputs of main.rs's TEST_CASES that are longer than a tiny string
TestInputs ==
    {Sparse(24, {3, 10, 23}), Sparse(54, {17, 35, 53})}

\* more than a window of lines: all newlines, and all but a few
DenseInputs ==
    {Dense(330, {}), Dense(330, {0}), Dense(331, {7, 200}), Dense(400, {300})}

SliceInputs == Embedded \cup TestInputs \cup DenseInputs

SimdSliceFns ==
    {"slice::x86_64::sse2",
     "slice::x86_64::sse2_unsafe",
     "slice::x86_64::sse2_unroll",
     "slice::x86_64::sse2_unrollx4",
     "slice::x86_64::avx2",
     "slice::x86_64::avx2_unsafe",
     "slice::x86_64::avx2_unroll",
     "slice::x86_64::avx2_unrollx2"}

UnrollSliceFns ==
    {"slice::x86_64::sse2_unroll",
     "slice::x86_64::sse2_unrollx4",
     "slice::x86_64::avx2_unroll",
     "slice::x86_64::avx2_unrollx2"}

SliceFns == {"slice::std", "slice::std_reuse"} \cup SimdSliceFns

\* n views the caller left in the output argument
PreViews(n) == [i \in 1..n |-> View(0, 0)]

InitSlice ==
    /\ fn \in SliceFns
    /\ input \in SliceInputs
    /\ out0 \in {PreViews(n) : n \in 0..(IF fn = "slice::std" THEN 0 ELSE MaxPre)}
    /\ out = out0
    /\ fresh = <<>>
    /\ pc = (IF fn \in {"slice::std", "slice::std_reuse"} THEN "start"
             ELSE IF fn \in UnrollSliceFns THEN "outer" ELSE "chunks")
    /\ chunk_i = 0
    /\ write_i = 0
    /\ line_start = 0
    /\ blk = 0
    /\ offset_v = 0
    /\ iter_count = 0
    /\ iter_i = 0
    /\ out_arr = <<>>
    /\ reserved = 0
    /\ ovf = FALSE
    /\ wrapped = {}
    /\ HarnessIdle
    /\ OneCall

NextSlice ==
    \/ call_std
    \/ call_std_reuse
    \/ slice_sse2
    \/ slice_sse2_unsafe
    \/ slice_sse2_unroll_outer
    \/ slice_sse2_unroll_inner
    \/ slice_sse2_unrollx4_outer
    \/ slice_sse2_unrollx4_inner
    \/ slice_avx2
    \/ slice_avx2_unsafe
    \/ slice_avx2_unroll_outer
    \/ slice_avx2_unroll_inner
    \/ slice_avx2_unrollx2_outer
    \/ slice_avx2_unrollx2_inner

SpecSlice == InitSlice /\ [][NextSlice]_vars

-----------------------------------------------------------------------------
(* Claims about the slice family *)

Done == pc = "done"

\* o holds one view [line_start, p) for each '\n' at p, in input order, then
\* the residual [line_start, len) iff it is non-empty
IsLineSplit(inp, o) ==
    LET m == Cardinality(inp.nl)
        ls(j) == IF j = 1 THEN 0 ELSE o[j - 1].e + 1
    IN  /\ Len(o) >= m
        /\ \A j \in 1..m : o[j].e \in inp.nl /\ o[j].s = ls(j)
        /\ \A j \in 1..(m - 1) : o[j].e < o[j + 1].e
        /\ IF ls(m + 1) # inp.len
           THEN Len(o) = m + 1 /\ o[m + 1] = View(ls(m + 1), inp.len)
           ELSE Len(o) = m

\* C1: every slice-family SIMD kernel called with an empty out leaves in it,
\* in input order, one view [line_start, p) per 0x0A at p and then the
\* residual [line_start, L) iff that residual is non-empty.
C1_SimdSplitsLines ==
    (Done /\ fn \in SimdSliceFns /\ out0 = <<>>) => IsLineSplit(input, out)

\* C1 witness: sse2_unrollx4 returned on 80 bytes (a chunk and a partial
\* chunk) whose only newline is the first byte after the chunk.
C1_Witness ==
    /\ Done /\ fn = "slice::x86_64::sse2_unrollx4" /\ out0 = <<>>
    /\ input.len = 80 /\ input.nl = {64}
    /\ out = <<View(0, 64), View(65, 80)>>

\* C2: on any input, '\r' included, every slice-family SIMD kernel run on an
\* empty out yields exactly the sequence of views slice::std returns.
C2_SimdEqualsStd ==
    (Done /\ fn \in SimdSliceFns /\ out0 = <<>>) => out = std(input)

\* C6: every view emitted by a slice-family function is a range [s, e) of
\* the input with 0 <= s <= e <= L that holds no 0x0A.
C6_ViewsExcludeNewline ==
    \A i \in 1..Len(out) :
        /\ 0 <= out[i].s /\ out[i].s <= out[i].e /\ out[i].e <= input.len
        /\ (out[i].s..(out[i].e - 1)) \cap input.nl = {}

\* C6 witness: std_reuse returned views of which one is not empty, on an
\* input that holds a newline.
C6_Witness ==
    /\ Done /\ fn = "slice::std_reuse" /\ input.nl # {}
    /\ \E i \in 1..Len(out) : out[i].e > out[i].s + 1

\* the bytes of a view
ViewBytes(inp, v) == [k \in 1..(v.e - v.s) |-> ByteAt(inp, v.s + k - 1)]

\* the bytes of the input
InputBytes(inp) == [k \in 1..inp.len |-> ByteAt(inp, k - 1)]

\* the views o[lo..hi] joined with '\n' between adjacent pairs
RECURSIVE JoinRange(_, _, _, _)
JoinRange(inp, o, lo, hi) ==
    IF lo > hi THEN <<>>
    ELSE IF lo = hi THEN ViewBytes(inp, o[lo])
    ELSE LET mid == (lo + hi) \div 2
         IN  JoinRange(inp, o, lo, mid) \o <<NL>> \o JoinRange(inp, o, mid + 1, hi)

Join(inp, o) == JoinRange(inp, o, 1, Len(o))

EndsWithNewline(b) == Len(b) > 0 /\ b[Len(b)] = NL

\* b minus a terminal '\n', b itself if it has none
MinusTerminalNewline(b) ==
    IF EndsWithNewline(b) THEN SubSeq(b, 1, Len(b) - 1) ELSE b

\* C7 as stated: the join yields the input exactly, unless the input lacks a
\* trailing '\n' and the final view is non-empty, and then the input minus a
\* terminal '\n'.
C7_JoinAsStated ==
    (Done /\ fn \in SimdSliceFns /\ out0 = <<>>) =>
        LET b == InputBytes(input)
            final_nonempty == Len(out) > 0 /\ out[Len(out)].e > out[Len(out)].s
        IN  IF ~EndsWithNewline(b) /\ final_nonempty
            THEN Join(input, out) = MinusTerminalNewline(b)
            ELSE Join(input, out) = b

\* C7 amended: joining the views a slice-family SIMD kernel emits with '\n'
\* between adjacent pairs yields the input minus its terminal '\n' when the
\* input ends in '\n', and the input exactly when it does not.
C7_JoinDropsTerminalNewline ==
    (Done /\ fn \in SimdSliceFns /\ out0 = <<>>) =>
        Join(input, out) = MinusTerminalNewline(InputBytes(input))

\* C7 witness: sse2 returned two or more views on an input of more than a
\* chunk that ends in '\n'.
C7_Witness ==
    /\ Done /\ fn = "slice::x86_64::sse2" /\ out0 = <<>>
    /\ input.len > 16 /\ (input.len - 1) \in input.nl
    /\ Len(out) >= 2

\* C8: std_reuse and the slice-family SIMD kernels only append: the views
\* the caller left in out stay in place, and what follows them is what the
\* same call produces on an empty out.
C8_AppendOnly ==
    fn \in ({"slice::std_reuse"} \cup SimdSliceFns) => out = out0 \o fresh

\* C8 witness: avx2_unroll returned after committing more than one window
\* of views behind a view the caller had left in out.
C8_Witness ==
    /\ Done /\ fn = "slice::x86_64::avx2_unroll" /\ Len(out0) = 1
    /\ Len(out) > 1 + 256

-----------------------------------------------------------------------------
(* mod compressed *)

\* LineIndex { lows, high_starts }
LineIndex(lows, high_starts) == [lows |-> lows, high_starts |-> high_starts]

\* 1 << 16: the block of input.as_bytes().chunks(1 << 16)
BlockSize == 65536

\* the number of blocks chunks_exact(1 << 16) would yield
block_count_exact(inp) == inp.len \div BlockSize

\* the number of blocks chunks(1 << 16) yields: the last may be shorter
block_count(inp) == (inp.len + BlockSize - 1) \div BlockSize

\* chunk_64k.len() of block b
block_len(inp, b) ==
    IF (b + 1) * BlockSize <= inp.len THEN BlockSize ELSE inp.len - b * BlockSize

\* the input seen from block b: chunk_64k.as_ptr() is input + b * 65536
block_view(inp, b) ==
    [len |-> block_len(inp, b),
     nl  |-> {p - b * BlockSize :
                p \in {q \in inp.nl : b * BlockSize <= q /\ q < (b + 1) * BlockSize}},
     cr  |-> {}]

\* a + b and a * b on u16: the value in a release build
add_u16(a, b) == (a + b) % 65536
mul_u16(a, b) == (a * b) % 65536

\* a.wrapping_add(b) on u16, and _mm512_add_epi16 on one lane
wrapping_add(a, b) == (a + b) % 65536

\* iter_block with the push to high_starts made after the block's lows
iter_block_push_after(chunk, o) ==
    LET idxs == Sorted(chunk.nl, 0, chunk.len)
    IN  LineIndex(o.lows \o [j \in 1..Len(idxs) |-> AsU16(idxs[j])],
                  Append(o.high_starts, Len(o.lows) + Len(idxs)))

\* the pass of compressed::iter over one block: push lows.len() to
\* high_starts, then idx as u16 for every '\n' of the block, in order
iter_block(chunk, o) ==
    LET idxs == Sorted(chunk.nl, 0, chunk.len)
    IN  LineIndex(o.lows \o [j \in 1..Len(idxs) |-> AsU16(idxs[j])],
                  Append(o.high_starts, Len(o.lows)))

RECURSIVE iter_from(_, _, _)
iter_from(inp, b, o) ==
    IF b >= block_count(inp) THEN o
    ELSE iter_from(inp, b + 1, iter_block(block_view(inp, b), o))

\* compressed::iter
iter(inp, o) == iter_from(inp, 0, o)

\* compressed::tail: base as u16 + idx as u16 for every '\n' from base on
compressed_tail(chunk_size, inp, o) ==
    LET base == and_not(inp.len, chunk_size - 1)
        idxs == Sorted({p - base : p \in {q \in inp.nl : q >= base}},
                       0, inp.len - base + 1)
    IN  LineIndex(o.lows \o [j \in 1..Len(idxs) |->
                               add_u16(AsU16(base), AsU16(idxs[j]))],
                  o.high_starts)

\* whether compressed::tail overflows a u16 addition
tail_overflows(chunk_size, inp) ==
    LET base == and_not(inp.len, chunk_size - 1)
    IN  \E p \in inp.nl : p >= base /\ AsU16(base) + AsU16(p - base) > 65535

\* the offsets chunk_i as u16 * W + bit_pos of the while-mask loop
offsets(mask, ci, W) ==
    LET bits == bit_positions(mask)
    IN  [j \in 1..Len(bits) |-> add_u16(mul_u16(AsU16(ci), W), bits[j])]

\* whether that loop overflows a u16 multiplication or addition
offsets_overflow(mask, ci, W, plus) ==
    \E b \in mask : AsU16(ci) * W + plus + b > 65535

\* the writes, in program order, of the values vals to the slots from i on
writes_from(i, vals) == [j \in 1..Len(vals) |-> <<i + j - 1, vals[j]>>]

\* The window after the writes ws (pairs <<slot, value>>, in program order):
\* a slot holds the value of the last write to it
ApplyWrites(arr, ws) ==
    IF ws = <<>> THEN arr
    ELSE LET top == CHOOSE t \in 1..Len(ws) :
                       \A u \in 1..Len(ws) : ws[u][1] <= ws[t][1]
             hi == IF ws[top][1] + 1 > Len(arr) THEN ws[top][1] + 1 ELSE Len(arr)
             last(k) == CHOOSE t \in 1..Len(ws) :
                          /\ ws[t][1] = k - 1
                          /\ \A u \in (t + 1)..Len(ws) : ws[u][1] # k - 1
         IN  [k \in 1..hi |->
                IF \E t \in 1..Len(ws) : ws[t][1] = k - 1 THEN ws[last(k)][2]
                ELSE IF k <= Len(arr) THEN arr[k]
                ELSE spare]

\* out.lows.set_len(write_i) after a truncation: the old lows are dropped
commit_lows_truncating(o, arr, wi) ==
    LineIndex(set_len(<<>>, arr, wi), o.high_starts)

\* out.lows.set_len(out.lows.len() + write_i)
commit_lows(o, arr, wi) ==
    LineIndex(set_len(o.lows, arr, Len(o.lows) + wi), o.high_starts)

\* The head of `for chunk_64k in input.as_bytes().chunks(1 << 16)`: push
\* lows.len() to high_starts and enter the block, or, the blocks exhausted,
\* the call of tail
CompressedBlock(name, W, enter) ==
    /\ fn = name /\ pc = "blocks"
    /\ IF blk < block_count(input)
       THEN /\ out' = LineIndex(out.lows, Append(out.high_starts, Len(out.lows)))
            /\ fresh' = LineIndex(fresh.lows,
                                  Append(fresh.high_starts, Len(fresh.lows)))
            /\ chunk_i' = 0
            /\ offset_v' = 0
            /\ pc' = enter
            /\ ovf' = ovf
            /\ wrapped' = wrapped
       ELSE /\ out' = compressed_tail(W, input, out)
            /\ fresh' = compressed_tail(W, input, fresh)
            /\ ovf' = (ovf \/ tail_overflows(W, input))
            /\ wrapped' = wrapped
            /\ pc' = "done"
            /\ UNCHANGED <<chunk_i, offset_v>>
    /\ UNCHANGED <<fn, input, write_i, line_start, blk, iter_count, iter_i,
                   out_arr, reserved, out0>>
    /\ UNCHANGED <<hvars, tvars>>

\* a call of compressed::iter
call_iter ==
    /\ fn = "compressed::iter" /\ pc = "start"
    /\ out' = iter(input, out)
    /\ fresh' = iter(input, fresh)
    /\ pc' = "done"
    /\ UNCHANGED <<fn, input, chunk_i, write_i, line_start, blk, offset_v,
                   iter_count, iter_i, out_arr, reserved, out0, ovf, wrapped>>
    /\ UNCHANGED <<hvars, tvars>>

\* compressed::x86_64::sse2, the block loop
compressed_sse2_block == CompressedBlock("compressed::x86_64::sse2", 16, "chunks")

\* compressed::x86_64::sse2: one pass of
\* `for (chunk_idx, chunk) in chunk_64k.chunks_exact(16).enumerate()`
compressed_sse2 ==
    /\ fn = "compressed::x86_64::sse2" /\ pc = "chunks"
    /\ IF chunk_i < block_len(input, blk) \div 16
       THEN LET mask == movemask(block_view(input, blk), chunk_i * 16, 16)
                new == offsets(mask, chunk_i, 16)
            IN  /\ out' = LineIndex(out.lows \o new, out.high_starts)
                /\ fresh' = LineIndex(fresh.lows \o new, fresh.high_starts)
                /\ ovf' = (ovf \/ offsets_overflow(mask, chunk_i, 16, 0))
                /\ wrapped' = wrapped
                /\ chunk_i' = chunk_i + 1
                /\ UNCHANGED <<blk, pc>>
       ELSE /\ blk' = blk + 1
            /\ pc' = "blocks"
            /\ UNCHANGED <<out, fresh, ovf, wrapped, chunk_i>>
    /\ UNCHANGED <<fn, input, write_i, line_start, offset_v, iter_count,
                   iter_i, out_arr, reserved, out0>>
    /\ UNCHANGED <<hvars, tvars>>

\* The head of `while chunk_i < stop_chunk_i` of an unroll kernel: reserve a
\* window of 256 slots of lows, or, the chunks of the block exhausted, go on
\* to the next block
CompressedUnrollOuter(name, W) ==
    /\ fn = name /\ pc = "outer"
    /\ IF chunk_i < block_len(input, blk) \div W
       THEN /\ write_i' = 0
            /\ out_arr' = <<>>
            /\ reserved' = 256
            /\ pc' = "inner"
            /\ UNCHANGED blk
       ELSE /\ blk' = blk + 1
            /\ pc' = "blocks"
            /\ UNCHANGED <<write_i, out_arr, reserved>>
    /\ UNCHANGED <<fn, input, chunk_i, line_start, offset_v, iter_count,
                   iter_i, out, out0, fresh, ovf, wrapped>>
    /\ UNCHANGED <<hvars, tvars>>

\* One pass of the inner loop of an unroll kernel over the chunk whose mask
\* is mask, or, its guard false, the commit by set_len
CompressedUnrollInner(name, W, guard, mask) ==
    /\ fn = name /\ pc = "inner"
    /\ IF guard /\ chunk_i < block_len(input, blk) \div W
       THEN LET new == offsets(mask, chunk_i, W)
            IN  /\ out_arr' = ApplyWrites(out_arr, writes_from(write_i, new))
                /\ write_i' = write_i + Len(new)
                /\ ovf' = (ovf \/ offsets_overflow(mask, chunk_i, W, 0))
                /\ wrapped' = wrapped
                /\ chunk_i' = chunk_i + 1
                /\ UNCHANGED <<out, fresh, pc>>
       ELSE /\ out' = commit_lows(out, out_arr, write_i)
            /\ fresh' = commit_lows(fresh, out_arr, write_i)
            /\ pc' = "outer"
            /\ UNCHANGED <<out_arr, write_i, chunk_i, ovf, wrapped>>
    /\ UNCHANGED <<fn, input, line_start, blk, offset_v, iter_count, iter_i,
                   reserved, out0>>
    /\ UNCHANGED <<hvars, tvars>>

\* compressed::x86_64::sse2_unroll
compressed_sse2_unroll_block == CompressedBlock("compressed::x86_64::sse2_unroll", 16, "outer")

compressed_sse2_unroll_outer == CompressedUnrollOuter("compressed::x86_64::sse2_unroll", 16)

\* the inner loop with a guard that is false at write_i = 0
compressed_sse2_unroll_inner_guard_false ==
    CompressedUnrollInner("compressed::x86_64::sse2_unroll", 16, write_i < 0,
                          movemask(block_view(input, blk), chunk_i * 16, 16))

compressed_sse2_unroll_inner ==
    CompressedUnrollInner("compressed::x86_64::sse2_unroll", 16, write_i <= 256 - 16,
                          movemask(block_view(input, blk), chunk_i * 16, 16))

\* compressed::x86_64::sse2_unrollx4
compressed_sse2_unrollx4_block == CompressedBlock("compressed::x86_64::sse2_unrollx4", 64, "outer")

compressed_sse2_unrollx4_outer == CompressedUnrollOuter("compressed::x86_64::sse2_unrollx4", 64)

compressed_sse2_unrollx4_inner ==
    CompressedUnrollInner("compressed::x86_64::sse2_unrollx4", 64, write_i <= 256 - 64,
                          mask_x4(block_view(input, blk), chunk_i * 64))

\* compressed::x86_64::avx2_unroll
compressed_avx2_unroll_block == CompressedBlock("compressed::x86_64::avx2_unroll", 32, "outer")

compressed_avx2_unroll_outer == CompressedUnrollOuter("compressed::x86_64::avx2_unroll", 32)

compressed_avx2_unroll_inner ==
    CompressedUnrollInner("compressed::x86_64::avx2_unroll", 32, write_i <= 256 - 32,
                          movemask(block_view(input, blk), chunk_i * 32, 32))

\* compressed::x86_64::avx2_unrollx2
compressed_avx2_unrollx2_block == CompressedBlock("compressed::x86_64::avx2_unrollx2", 64, "outer")

compressed_avx2_unrollx2_outer == CompressedUnrollOuter("compressed::x86_64::avx2_unrollx2", 64)

compressed_avx2_unrollx2_inner ==
    CompressedUnrollInner("compressed::x86_64::avx2_unrollx2", 64, write_i <= 256 - 64,
                          mask_x2(block_view(input, blk), chunk_i * 64))

\* what `rep bsf` leaves in its output for a zero input: the count 64 where
\* the encoding runs as tzcnt, else whatever the register held
BsfOfZero == {0, 64, 65535}

\* _tzcnt_u64(0)
TzcntOfZero == {64}

\* The head of `while chunk_i < stop_chunk_i` of an interleaved kernel:
\* iter_count = 32.min(stop_chunk_i - chunk_i) and a window of
\* iter_count * CHUNK_SIZE slots, or go on to the next block
InterleaveOuter(name) ==
    /\ fn = name /\ pc = "outer"
    /\ LET stop_chunk_i == block_len(input, blk) \div 128
       IN  IF chunk_i < stop_chunk_i
           THEN /\ write_i' = 0
                /\ iter_count' = (IF 32 < stop_chunk_i - chunk_i THEN 32
                                  ELSE stop_chunk_i - chunk_i)
                /\ reserved' = iter_count' * 128
                /\ iter_i' = 0
                /\ out_arr' = <<>>
                /\ pc' = "inner"
                /\ UNCHANGED blk
           ELSE /\ blk' = blk + 1
                /\ pc' = "blocks"
                /\ UNCHANGED <<write_i, iter_count, reserved, iter_i, out_arr>>
    /\ UNCHANGED <<fn, input, chunk_i, line_start, offset_v, out, out0, fresh,
                   ovf, wrapped>>
    /\ UNCHANGED <<hvars, tvars>>

\* write_i2 starting at write_i + mask2_count
interleave_writes_second_cursor_misplaced(mask1, mask2, ci, wi, zero) ==
    LET a == bit_positions(mask1)
        b == bit_positions(mask2)
        write_i2 == wi + count_ones(mask2)
        base == mul_u16(AsU16(ci), 128)
        one == [t \in 1..(2 * Len(a)) |->
                    LET j == (t + 1) \div 2
                    IN  IF t % 2 = 1
                        THEN <<wi + j - 1, add_u16(base, a[j])>>
                        ELSE <<write_i2 + j - 1,
                               wrapping_add(wrapping_add(base, 64),
                                            AsU16(IF j <= Len(b) THEN b[j] ELSE zero))>>]
        two == [t \in 1..(IF Len(b) > Len(a) THEN Len(b) - Len(a) ELSE 0) |->
                    <<write_i2 + Len(a) + t - 1,
                      add_u16(add_u16(base, 64), b[Len(a) + t])>>]
    IN  one \o two

\* the writes of the first loop only: the offsets left of mask2 stay unwritten
interleave_writes_without_drain(mask1, mask2, ci, wi, zero) ==
    LET a == bit_positions(mask1)
        b == bit_positions(mask2)
        write_i2 == wi + count_ones(mask1)
        base == mul_u16(AsU16(ci), 128)
    IN  [t \in 1..(2 * Len(a)) |->
            LET j == (t + 1) \div 2
            IN  IF t % 2 = 1
                THEN <<wi + j - 1, add_u16(base, a[j])>>
                ELSE <<write_i2 + j - 1,
                       wrapping_add(wrapping_add(base, 64),
                                    AsU16(IF j <= Len(b) THEN b[j] ELSE zero))>>]

\* The writes, in program order, of one pass of `for _ in 0..iter_count` at
\* write cursor wi, for the masks mask1 and mask2 of the two 64-byte strides;
\* zero is what the bit scan of an exhausted mask2 returns.
\*   while mask1 != 0: one offset of mask1 at write_i, then one of mask2 (or
\*     junk) at write_i2, both cursors advancing;
\*   while mask2 != 0: the offsets left of mask2 at write_i2.
interleave_writes(mask1, mask2, ci, wi, zero) ==
    LET a == bit_positions(mask1)
        b == bit_positions(mask2)
        write_i2 == wi + count_ones(mask1)
        base == mul_u16(AsU16(ci), 128)
        first == [t \in 1..(2 * Len(a)) |->
                    LET j == (t + 1) \div 2
                    IN  IF t % 2 = 1
                        THEN <<wi + j - 1, add_u16(base, a[j])>>
                        ELSE <<write_i2 + j - 1,
                               wrapping_add(wrapping_add(base, 64),
                                            AsU16(IF j <= Len(b) THEN b[j] ELSE zero))>>]
        second == [t \in 1..(IF Len(b) > Len(a) THEN Len(b) - Len(a) ELSE 0) |->
                    <<write_i2 + Len(a) + t - 1,
                      add_u16(add_u16(base, 64), b[Len(a) + t])>>]
    IN  first \o second

\* whether that pass overflows a non-wrapping u16 operation
interleave_overflows(mask1, mask2, ci) ==
    \/ offsets_overflow(mask1, ci, 128, 0)
    \/ LET b == bit_positions(mask2)
       IN  \E j \in (count_ones(mask1) + 1)..Len(b) :
              AsU16(ci) * 128 + 64 + b[j] > 65535

\* the wrapping_add results of that pass that wrapped: "stride2", an offset
\* of mask2; "junk", the value written once mask2 is exhausted
interleave_wraps(mask1, mask2, ci, zero) ==
    LET a == bit_positions(mask1)
        b == bit_positions(mask2)
        base == mul_u16(AsU16(ci), 128)
    IN  {w \in {"stride2"} :
            \E j \in 1..Len(a) : j <= Len(b) /\ base + 64 + b[j] > 65535}
        \cup
        {w \in {"junk"} :
            \E j \in 1..Len(a) : j > Len(b) /\ base + 64 + AsU16(zero) > 65535}

\* One pass of `for _ in 0..iter_count` of an interleaved kernel, or, the
\* passes made, the commit by set_len
InterleaveInner(name, mask1, mask2, zeros) ==
    /\ fn = name /\ pc = "inner"
    /\ IF iter_i < iter_count
       THEN \E zero \in zeros :
            /\ out_arr' = ApplyWrites(out_arr,
                              interleave_writes(mask1, mask2, chunk_i, write_i, zero))
            /\ write_i' = write_i + count_ones(mask1) + count_ones(mask2)
            /\ ovf' = (ovf \/ interleave_overflows(mask1, mask2, chunk_i))
            /\ wrapped' = wrapped \cup interleave_wraps(mask1, mask2, chunk_i, zero)
            /\ chunk_i' = chunk_i + 1
            /\ iter_i' = iter_i + 1
            /\ UNCHANGED <<out, fresh, pc>>
       ELSE /\ out' = commit_lows(out, out_arr, write_i)
            /\ fresh' = commit_lows(fresh, out_arr, write_i)
            /\ pc' = "outer"
            /\ UNCHANGED <<out_arr, write_i, chunk_i, iter_i, ovf, wrapped>>
    /\ UNCHANGED <<fn, input, line_start, blk, offset_v, iter_count, reserved,
                   out0>>
    /\ UNCHANGED <<hvars, tvars>>

\* compressed::x86_64::sse42_unrollx4_interleavex2
compressed_sse42_unrollx4_interleavex2_block ==
    CompressedBlock("compressed::x86_64::sse42_unrollx4_interleavex2", 128, "outer")

compressed_sse42_unrollx4_interleavex2_outer ==
    InterleaveOuter("compressed::x86_64::sse42_unrollx4_interleavex2")

compressed_sse42_unrollx4_interleavex2_inner ==
    InterleaveInner("compressed::x86_64::sse42_unrollx4_interleavex2",
                    mask_x4(block_view(input, blk), chunk_i * 128),
                    mask_x4(block_view(input, blk), chunk_i * 128 + 64),
                    BsfOfZero)

\* compressed::x86_64::avx2_unrollx2_interleavex2
compressed_avx2_unrollx2_interleavex2_block ==
    CompressedBlock("compressed::x86_64::avx2_unrollx2_interleavex2", 128, "outer")

compressed_avx2_unrollx2_interleavex2_outer ==
    InterleaveOuter("compressed::x86_64::avx2_unrollx2_interleavex2")

compressed_avx2_unrollx2_interleavex2_inner ==
    InterleaveInner("compressed::x86_64::avx2_unrollx2_interleavex2",
                    mask_x2(block_view(input, blk), chunk_i * 128),
                    mask_x2(block_view(input, blk), chunk_i * 128 + 64),
                    TzcntOfZero)

\* the lanes left where they are, not packed to the front
maskz_unpacked(mask) ==
    [l \in 1..64 |-> IF l - 1 \in mask THEN l - 1 ELSE 0]

\* _mm512_maskz_compress_epi8(mask, idx_v): the positions of the set bits of
\* mask packed into the low lanes, the other lanes zero
maskz_compress(mask) ==
    LET bits == bit_positions(mask)
    IN  [l \in 1..64 |-> IF l <= Len(bits) THEN bits[l] ELSE 0]

\* the second store 64 elements, not 64 bytes, after the first
compress_writes_64_elements_ahead(mask, off, wi) ==
    LET idxs == maskz_compress(mask)
        low == [l \in 1..32 |-> <<wi + l - 1, wrapping_add(idxs[l], off)>>]
        high == [l \in 1..32 |-> <<wi + 64 + l - 1, wrapping_add(idxs[32 + l], off)>>]
    IN  IF count_ones(mask) > 32 THEN low \o high ELSE low

\* The stores of one chunk of avx512_compress at write cursor wi: 32 lanes of
\* idxs + offset_v at write_i, and, if num_lines > 32, the high 32 lanes 64
\* bytes further
compress_writes(mask, off, wi) ==
    LET idxs == maskz_compress(mask)
        low == [l \in 1..32 |-> <<wi + l - 1, wrapping_add(idxs[l], off)>>]
        high == [l \in 1..32 |-> <<wi + 32 + l - 1, wrapping_add(idxs[32 + l], off)>>]
    IN  IF count_ones(mask) > 32 THEN low \o high ELSE low

\* the _mm512_add_epi16 lanes of one chunk that wrapped: "lanes", a stored
\* lane below num_lines; "junk lanes", a stored lane from num_lines on;
\* "offset_v", the running offset_v + 64
compress_wraps(mask, off) ==
    LET idxs == maskz_compress(mask)
        num_lines == count_ones(mask)
        stored == IF num_lines > 32 THEN 1..64 ELSE 1..32
    IN  {w \in {"lanes"} :
            \E l \in stored : l <= num_lines /\ idxs[l] + off > 65535}
        \cup
        {w \in {"junk lanes"} :
            \E l \in stored : l > num_lines /\ idxs[l] + off > 65535}
        \cup
        {w \in {"offset_v"} : off + 64 > 65535}

\* compressed::x86_64::avx512_compress
compressed_avx512_compress_block == CompressedBlock("compressed::x86_64::avx512_compress", 64, "outer")

compressed_avx512_compress_outer == CompressedUnrollOuter("compressed::x86_64::avx512_compress", 64)

compressed_avx512_compress_inner ==
    /\ fn = "compressed::x86_64::avx512_compress" /\ pc = "inner"
    /\ IF write_i <= 256 - 64 /\ chunk_i < block_len(input, blk) \div 64
       THEN LET mask == movemask(block_view(input, blk), chunk_i * 64, 64)
            IN  /\ out_arr' = ApplyWrites(out_arr,
                                  compress_writes(mask, offset_v, write_i))
                /\ offset_v' = wrapping_add(offset_v, 64)
                /\ wrapped' = wrapped \cup compress_wraps(mask, offset_v)
                /\ write_i' = write_i + count_ones(mask)
                /\ chunk_i' = chunk_i + 1
                /\ UNCHANGED <<out, fresh, pc>>
       ELSE /\ out' = commit_lows(out, out_arr, write_i)
            /\ fresh' = commit_lows(fresh, out_arr, write_i)
            /\ pc' = "outer"
            /\ UNCHANGED <<out_arr, write_i, chunk_i, offset_v, wrapped>>
    /\ UNCHANGED <<fn, input, line_start, blk, iter_count, iter_i, reserved,
                   out0, ovf>>
    /\ UNCHANGED <<hvars, tvars>>

-----------------------------------------------------------------------------
(* The calls of the compressed family that are checked *)

\* bound: the longest exhaustively enumerated string over payload and '\n'
MaxTinyLines == 3

\* bound: the number of 64 KiB blocks the long inputs span
MaxBlocks == 2

TinyLineStrings == UNION {[1..n -> {PAYLOAD, NL}] : n \in 0..MaxTinyLines}

\* every tiny string, at the start and across the 16-, 64- and 128-byte
\* chunk boundaries, followed by nothing, a partial chunk and whole chunks
EmbeddedLines ==
    {Embed(off, b, suf) :
        off \in {0, 15, 63, 127}, b \in TinyLineStrings, suf \in {0, 14, 130}}

\* more than a window of newlines, and more than the 32 passes of one window
\* of an interleaved kernel
DenseLines ==
    {Dense(330, {}), Dense(600, {0, 1, 2, 70, 300}), Dense(4300, {4200})}

\* Newlines around the chunk and block boundaries of inputs of MaxBlocks
\* whole blocks and a shorter last one, and of exactly one block
LongInputs ==
    LET n == MaxBlocks * BlockSize
    IN  {Sparse(BlockSize, {0, 65535}),
         Sparse(n + 37, {0, 15, 16, 65535, 65536, 65537, 70000,
                         n - 1, n, n + 1, n + 36}),
         Sparse(BlockSize + 200, {65535, 65663, 65664, 65735}),
         Sparse(n - BlockSize + 64, (65400..65470) \cup {65535, 65536, 65599})}

CompressedInputs == EmbeddedLines \cup DenseLines \cup LongInputs

UnrollCompressedFns ==
    {"compressed::x86_64::sse2_unroll",
     "compressed::x86_64::sse2_unrollx4",
     "compressed::x86_64::avx2_unroll",
     "compressed::x86_64::avx2_unrollx2",
     "compressed::x86_64::avx512_compress"}

InterleaveFns ==
    {"compressed::x86_64::sse42_unrollx4_interleavex2",
     "compressed::x86_64::avx2_unrollx2_interleavex2"}

SimdCompressedFns == {"compressed::x86_64::sse2"} \cup UnrollCompressedFns \cup InterleaveFns

CompressedFns == {"compressed::iter"} \cup SimdCompressedFns

EmptyIndex == LineIndex(<<>>, <<>>)

\* a LineIndex the caller left n lows and n high_starts in
PreIndex(n) == LineIndex([i \in 1..n |-> 7], [i \in 1..n |-> 0])

InitCompressed ==
    /\ fn \in CompressedFns
    /\ input \in CompressedInputs
    /\ out0 \in {PreIndex(n) : n \in 0..(IF input \in EmbeddedLines THEN MaxPre ELSE 0)}
    /\ out = out0
    /\ fresh = EmptyIndex
    /\ pc = (IF fn = "compressed::iter" THEN "start" ELSE "blocks")
    /\ chunk_i = 0
    /\ write_i = 0
    /\ line_start = 0
    /\ blk = 0
    /\ offset_v = 0
    /\ iter_count = 0
    /\ iter_i = 0
    /\ out_arr = <<>>
    /\ reserved = 0
    /\ ovf = FALSE
    /\ wrapped = {}
    /\ HarnessIdle
    /\ OneCall

NextCompressed ==
    \/ call_iter
    \/ compressed_sse2_block
    \/ compressed_sse2
    \/ compressed_sse2_unroll_block
    \/ compressed_sse2_unroll_outer
    \/ compressed_sse2_unroll_inner
    \/ compressed_sse2_unrollx4_block
    \/ compressed_sse2_unrollx4_outer
    \/ compressed_sse2_unrollx4_inner
    \/ compressed_sse42_unrollx4_interleavex2_block
    \/ compressed_sse42_unrollx4_interleavex2_outer
    \/ compressed_sse42_unrollx4_interleavex2_inner
    \/ compressed_avx2_unroll_block
    \/ compressed_avx2_unroll_outer
    \/ compressed_avx2_unroll_inner
    \/ compressed_avx2_unrollx2_block
    \/ compressed_avx2_unrollx2_outer
    \/ compressed_avx2_unrollx2_inner
    \/ compressed_avx2_unrollx2_interleavex2_block
    \/ compressed_avx2_unrollx2_interleavex2_outer
    \/ compressed_avx2_unrollx2_interleavex2_inner
    \/ compressed_avx512_compress_block
    \/ compressed_avx512_compress_outer
    \/ compressed_avx512_compress_inner

SpecCompressed == InitCompressed /\ [][NextCompressed]_vars

-----------------------------------------------------------------------------
(* Claims about the compressed family *)

X86CompressedFns ==
    {"compressed::x86_64::sse2",
     "compressed::x86_64::sse2_unroll",
     "compressed::x86_64::sse2_unrollx4",
     "compressed::x86_64::sse42_unrollx4_interleavex2",
     "compressed::x86_64::avx2_unroll",
     "compressed::x86_64::avx2_unrollx2",
     "compressed::x86_64::avx2_unrollx2_interleavex2",
     "compressed::x86_64::avx512_compress"}

\* C3: every compressed-family x86 kernel started from an empty LineIndex
\* ends with the (lows, high_starts) that compressed::iter produces on the
\* same input.
C3_KernelEqualsIter ==
    (Done /\ fn \in X86CompressedFns /\ out0 = EmptyIndex) =>
        out = iter(input, EmptyIndex)

\* C3 witness: avx2_unrollx2_interleavex2 returned on an input of two whole
\* blocks and a last block of 37 bytes, with newlines in every block.
C3_Witness ==
    /\ Done /\ fn = "compressed::x86_64::avx2_unrollx2_interleavex2" /\ out0 = EmptyIndex
    /\ input.len = 2 * BlockSize + 37
    /\ Len(out.high_starts) = 3
    /\ out.high_starts[2] > 0 /\ out.high_starts[3] > out.high_starts[2]
    /\ Len(out.lows) > out.high_starts[3]

\* b * 65536 + lows[i] for each block b from block on, in order, and each i
\* from high_starts[b] up to the next block's start (lows.len() for the last)
RECURSIVE ListingFrom(_, _)
ListingFrom(o, block) ==
    IF block >= Len(o.high_starts) THEN <<>>
    ELSE LET from == o.high_starts[block + 1]
             to == IF block + 1 < Len(o.high_starts)
                   THEN o.high_starts[block + 2] ELSE Len(o.lows)
         IN  [j \in 1..(to - from) |-> block * 65536 + o.lows[from + j]]
               \o ListingFrom(o, block + 1)

\* C4: for every compressed-family kernel started from an empty LineIndex,
\* the listing of b * 65536 + lows[i] by block is strictly increasing and is
\* exactly the positions of the 0x0A bytes; lows has one entry per newline.
C4_ListingIsNewlines ==
    (Done /\ fn \in CompressedFns /\ out0 = EmptyIndex) =>
        LET l == ListingFrom(out, 0)
        IN  /\ \A i \in 1..(Len(l) - 1) : l[i] < l[i + 1]
            /\ {l[i] : i \in 1..Len(l)} = input.nl
            /\ Len(out.lows) = Cardinality(input.nl)

\* C4 witness: sse2 returned on an input whose second block starts with a
\* newline, which lows holds as offset 0 after a larger offset.
C4_Witness ==
    /\ Done /\ fn = "compressed::x86_64::sse2" /\ out0 = EmptyIndex
    /\ BlockSize \in input.nl
    /\ \E i \in 2..Len(out.lows) : out.lows[i] = 0 /\ out.lows[i - 1] > 0

\* the least n with n * d >= x
CeilDiv(x, d) ==
    CHOOSE n \in 0..(x \div d + 1) : n * d >= x /\ (n = 0 \/ (n - 1) * d < x)

\* C5: for every compressed-family kernel started from an empty LineIndex,
\* high_starts ends with ceil(L / 65536) entries, one pushed per block before
\* the block's offsets; it is non-decreasing, every entry is at most
\* lows.len(), and high_starts[0] = 0.
C5_HighStarts ==
    (fn \in CompressedFns /\ out0 = EmptyIndex) =>
        LET hs == out.high_starts
        IN  /\ Done => Len(hs) = CeilDiv(input.len, 65536)
            /\ pc \in {"chunks", "outer", "inner"} => Len(hs) = blk + 1
            /\ pc = "blocks" => Len(hs) = blk
            /\ \A i \in 1..(Len(hs) - 1) : hs[i] <= hs[i + 1]
            /\ \A i \in 1..Len(hs) : hs[i] <= Len(out.lows)
            /\ Len(hs) > 0 => hs[1] = 0

\* C5 witness: avx2_unrollx2 returned with three entries in high_starts,
\* the last block being shorter than 64 KiB.
C5_Witness ==
    /\ Done /\ fn = "compressed::x86_64::avx2_unrollx2" /\ out0 = EmptyIndex
    /\ input.len % BlockSize # 0
    /\ Len(out.high_starts) = 3
    /\ out.high_starts[3] > out.high_starts[2]

\* C9 as stated: a compressed-family kernel called with a LineIndex that is
\* not empty produces the LineIndex it produces when called with an empty
\* one.
C9_TruncatesAsStated ==
    (Done /\ fn \in CompressedFns) => out = fresh

\* C9 amended: no compressed-family kernel truncates its output; it appends:
\* lows ends as the old lows followed by the lows of a call on an empty
\* LineIndex, high_starts as the old high_starts followed by that call's
\* high_starts, each raised by the old lows.len().
C9_AppendsToIndex ==
    (Done /\ fn \in CompressedFns) =>
        /\ out.lows = out0.lows \o fresh.lows
        /\ out.high_starts =
             out0.high_starts
               \o [i \in 1..Len(fresh.high_starts) |->
                     fresh.high_starts[i] + Len(out0.lows)]

\* C9 witness: sse2_unroll returned, having found newlines, on a LineIndex
\* that held an entry in lows and in high_starts at the call.
C9_Witness ==
    /\ Done /\ fn = "compressed::x86_64::sse2_unroll"
    /\ Len(out0.lows) = 1 /\ Len(out0.high_starts) = 1
    /\ Len(fresh.lows) >= 2 /\ Len(fresh.high_starts) = 1


-----------------------------------------------------------------------------
(* fn main: the benchmark harness *)
(* main is one run; it is cut at its kernel calls, which run as the step   *)
(* machines above on the stage's input, and main resumes when the kernel   *)
(* has returned (pc = "done").  A throughput is a wall-clock measurement;  *)
(* what the model keeps of it is the label and stage it was measured for.  *)

\* the length of the scratch buffer b, standing for the program's 1 GiB; the
\* caps of the stages and the pooled vector keep their ratio to it
ScratchLen == 192

\* 256 * 1024 * 1024 of prep_vec_range, a quarter of b
Cap256M == ScratchLen \div 4

\* no cap: the length of b
Cap64M_uncapped == ScratchLen

\* 64 * 1024 * 1024 of the stage "0-0" and of the pooled vector, 1/16 of b
Cap64M == ScratchLen \div 16

\* x.min(y)
Min(x, y) == IF x <= y THEN x ELSE y

\* &b[..n] as a str
str_of(vec, n) ==
    [len |-> n, nl |-> {p \in vec.nl : p < n}, cr |-> {p \in vec.cr : p < n}]

\* the iteration orders a HashSet<usize> holding 0..k-1 can have: all of them
HashSetOrders(k) ==
    {o \in [1..k -> 0..(k - 1)] : \A i, j \in 1..k : o[i] = o[j] => i = j}

RECURSIVE PrefixSum(_, _)
\* idx after the first j passes of the for_each of prep_vec_range
PrefixSum(lens, j) == IF j = 0 THEN 0 ELSE PrefixSum(lens, j - 1) + lens[j]

\* the number of line lengths prep_vec_range::<M, N> draws
range_count(M, N, vec) == (Min(vec.len, Cap256M) * 2) \div (N + M)

\* prep_vec_range with `idx += i + 1`, the cursor stepping over the '\n' too
prep_vec_range_newline_counted(M, N, vec, order) ==
    LET lens == [j \in 1..Len(order) |-> M + (order[j] % (N - M + 1)) + 1]
        oob(j) == PrefixSum(lens, j) >= vec.len
        done == {j \in 1..Len(order) : \A i \in 1..j : ~oob(i)}
    IN  [vec |-> [len |-> vec.len,
                  nl |-> {PrefixSum(lens, j) : j \in done},
                  cr |-> {}],
         len |-> Min(vec.len, Cap256M),
         panicked |-> (M > N) \/ (\E j \in 1..Len(order) : oob(j))]

\* prep_vec_range::<M, N>(vec), the HashSet iterating in `order`; vec[idx]
\* panics when idx is out of bounds
prep_vec_range(M, N, vec, order) ==
    LET lens == [j \in 1..Len(order) |-> M + (order[j] % (N - M + 1))]
        oob(j) == PrefixSum(lens, j) >= vec.len
        done == {j \in 1..Len(order) : \A i \in 1..j : ~oob(i)}
    IN  [vec |-> [len |-> vec.len,
                  nl |-> {PrefixSum(lens, j) : j \in done},
                  cr |-> {}],
         len |-> Min(vec.len, Cap256M),
         panicked |-> (M > N) \/ (\E j \in 1..Len(order) : oob(j))]

\* the same stages, "single line" after the ones that write newlines
benchmark_stages_single_line_last ==
    << [label |-> "0-0", prep |-> "fill", M |-> 0, N |-> 0],
       [label |-> "1-20", prep |-> "prep_vec_range", M |-> 1, N |-> 20],
       [label |-> "5-20", prep |-> "prep_vec_range", M |-> 5, N |-> 20],
       [label |-> "10-30", prep |-> "prep_vec_range", M |-> 10, N |-> 30],
       [label |-> "0-40", prep |-> "prep_vec_range", M |-> 0, N |-> 40],
       [label |-> "0-80", prep |-> "prep_vec_range", M |-> 0, N |-> 80],
       [label |-> "40-120", prep |-> "prep_vec_range", M |-> 40, N |-> 120],
       [label |-> "single line", prep |-> "len", M |-> 0, N |-> 0] >>

benchmark_stages ==
    << [label |-> "single line", prep |-> "len", M |-> 0, N |-> 0],
       [label |-> "1-20", prep |-> "prep_vec_range", M |-> 1, N |-> 20],
       [label |-> "5-20", prep |-> "prep_vec_range", M |-> 5, N |-> 20],
       [label |-> "10-30", prep |-> "prep_vec_range", M |-> 10, N |-> 30],
       [label |-> "0-40", prep |-> "prep_vec_range", M |-> 0, N |-> 40],
       [label |-> "0-80", prep |-> "prep_vec_range", M |-> 0, N |-> 80],
       [label |-> "40-120", prep |-> "prep_vec_range", M |-> 40, N |-> 120],
       [label |-> "0-0", prep |-> "fill", M |-> 0, N |-> 0] >>

\* the orders the HashSet of a stage's prep_fn can iterate in
prep_orders(stage, vec) ==
    IF stage.prep = "prep_vec_range"
    THEN HashSetOrders(range_count(stage.M, stage.N, vec))
    ELSE {<<>>}

\* prep_fn(&mut b) of a stage
prep_fn(stage, vec, order) ==
    IF stage.prep = "len"
    THEN [vec |-> vec, len |-> vec.len, panicked |-> FALSE]
    ELSE IF stage.prep = "fill"
    THEN [vec |-> [len |-> vec.len, nl |-> 0..(vec.len - 1), cr |-> {}],
          len |-> Min(vec.len, Cap64M),
          panicked |-> FALSE]
    ELSE prep_vec_range(stage.M, stage.N, vec, order)

slice_bench_cases ==
    << [label |-> "std_reuse", feat |-> "true", fnc |-> "slice::std_reuse"],
       [label |-> "sse2", feat |-> "true", fnc |-> "slice::x86_64::sse2"],
       [label |-> "sse2_unsafe", feat |-> "true",
        fnc |-> "slice::x86_64::sse2_unsafe"],
       [label |-> "sse2_unroll", feat |-> "true",
        fnc |-> "slice::x86_64::sse2_unroll"],
       [label |-> "sse2_unrollx4", feat |-> "true",
        fnc |-> "slice::x86_64::sse2_unrollx4"],
       [label |-> "avx2", feat |-> "slice::x86_64::can_run_avx2",
        fnc |-> "slice::x86_64::avx2"],
       [label |-> "avx2_unsafe", feat |-> "slice::x86_64::can_run_avx2",
        fnc |-> "slice::x86_64::avx2_unsafe"],
       [label |-> "avx2_unroll", feat |-> "slice::x86_64::can_run_avx2",
        fnc |-> "slice::x86_64::avx2_unroll"],
       [label |-> "avx2_unrollx2", feat |-> "slice::x86_64::can_run_avx2",
        fnc |-> "slice::x86_64::avx2_unrollx2"] >>

\* the last case is compiled in with feature = "nightly" only
compressed_bench_cases ==
    << [label |-> "iter", feat |-> "true", fnc |-> "compressed::iter"],
       [label |-> "sse2", feat |-> "true", fnc |-> "compressed::x86_64::sse2"],
       [label |-> "sse2 unroll", feat |-> "true",
        fnc |-> "compressed::x86_64::sse2_unroll"],
       [label |-> "sse2 unrollx4", feat |-> "true",
        fnc |-> "compressed::x86_64::sse2_unrollx4"],
       [label |-> "sse4 intrlv", feat |-> "compressed::x86_64::can_run_sse42",
        fnc |-> "compressed::x86_64::sse42_unrollx4_interleavex2"],
       [label |-> "avx2 unroll", feat |-> "compressed::x86_64::can_run_avx2",
        fnc |-> "compressed::x86_64::avx2_unroll"],
       [label |-> "avx2 unrollx2", feat |-> "compressed::x86_64::can_run_avx2",
        fnc |-> "compressed::x86_64::avx2_unrollx2"],
       [label |-> "avx2 intrlv", feat |-> "compressed::x86_64::can_run_avx2",
        fnc |-> "compressed::x86_64::avx2_unrollx2_interleavex2"] >>
    \o (IF nightly
        THEN << [label |-> "avx512",
                 feat |-> "compressed::x86_64::can_run_avx512_compress",
                 fnc |-> "compressed::x86_64::avx512_compress"] >>
        ELSE << >>)

is_x86_feature_detected(f) == f \in features

slice_can_run_avx2 ==
    /\ is_x86_feature_detected("avx2")
    /\ is_x86_feature_detected("bmi1")
    /\ is_x86_feature_detected("popcnt")

can_run_sse42 == is_x86_feature_detected("popcnt")

compressed_can_run_avx2 ==
    /\ is_x86_feature_detected("avx2")
    /\ is_x86_feature_detected("bmi1")
    /\ is_x86_feature_detected("popcnt")

can_run_avx512_compress ==
    /\ is_x86_feature_detected("popcnt")
    /\ is_x86_feature_detected("avx512f")
    /\ is_x86_feature_detected("avx512bw")
    /\ is_x86_feature_detected("avx512vbmi2")

\* feat_checker() of a bench case
feat_checker(case) ==
    CASE case.feat = "true" -> TRUE
      [] case.feat = "slice::x86_64::can_run_avx2" -> slice_can_run_avx2
      [] case.feat = "compressed::x86_64::can_run_sse42" -> can_run_sse42
      [] case.feat = "compressed::x86_64::can_run_avx2" ->
            compressed_can_run_avx2
      [] case.feat = "compressed::x86_64::can_run_avx512_compress" ->
            can_run_avx512_compress

\* a mutation of skips: no case is skipped
skips_none(ok) == FALSE

\* `if !feat_checker() { println!(..); continue; }`: whether the case is skipped
skips(ok) == ~ok

\* a mutation of clear_index: the vectors keep what they hold
clear_index_kept(idx) == idx

\* idx.lows.clear(); idx.high_starts.clear()
clear_index(idx) == LineIndex(<< >>, << >>)

\* a Vec that keeps its elements
clear_kept(vec) == vec

\* vec.clear()
clear(vec) == << >>

\* reset_vector(vec): the allocation of vec, cleared
reset_vector(vec) == << >>

\* a new allocation, as Vec::new(): no capacity
reset_vector_capacity_dropped(cap) == 0

\* the capacity of reset_vector(vec), cap that of vec:
\* Vec::from_raw_parts(ptr.cast(), 0, cap)
reset_vector_capacity(cap) == cap

\* The capacities a Vec of capacity cap can have once a kernel has filled it
\* with o by push, reserve(256) and set_len: never less than before, at
\* least the length, and, where the Vec has grown, as much more as the
\* allocator chose (here: up to twice, below 4 * Cap64M)
capacity_after(cap, o) ==
    LET least == IF Len(o) > cap THEN Len(o) ELSE cap
    IN  {least} \cup {c \in {2 * least} : c <= 4 * Cap64M}

\* a line of standard output
Line(kind, label) == [kind |-> kind, label |-> label, cells |-> << >>]

\* a throughput: what was measured, and in which stage
Thrpt(fn_label) == [of |-> fn_label, stage |-> benchmark_stages[stage_i + 1].label]

\* the first instruction of a function
Entry(f) ==
    IF f \in {"slice::std", "slice::std_reuse", "compressed::iter"} THEN "start"
    ELSE IF f \in UnrollSliceFns THEN "outer"
    ELSE IF f \in SimdSliceFns THEN "chunks"
    ELSE "blocks"

\* the call f(input, &mut o), up to the first instruction of f
Invoke(f, o, empty) ==
    /\ fn' = f
    /\ pc' = Entry(f)
    /\ out' = o
    /\ out0' = o
    /\ fresh' = empty
    /\ chunk_i' = 0
    /\ write_i' = 0
    /\ line_start' = 0
    /\ blk' = 0
    /\ offset_v' = 0
    /\ iter_count' = 0
    /\ iter_i' = 0
    /\ out_arr' = << >>
    /\ reserved' = 0
    /\ ovf' = FALSE
    /\ wrapped' = {}

\* the callee has returned
Returned == pc = "done"

\* main between two calls
Resume ==
    /\ pc' = "idle"
    /\ UNCHANGED <<fn, input, chunk_i, write_i, line_start, blk, offset_v,
                   iter_count, iter_i, out, out_arr, reserved, out0, fresh,
                   ovf, wrapped>>

\* The head of `for (stage_label, prep_fn) in benchmark_stages`, a stage
\* left: the stage's label, prep_fn, the input, and the first call of
\* slice::std
main_stage ==
    /\ hpc = "stages" /\ stage_i < Len(benchmark_stages)
    /\ LET stage == benchmark_stages[stage_i + 1]
       IN  \E order \in prep_orders(stage, b_vec) :
             LET r == prep_fn(stage, b_vec, order)
             IN  /\ b_vec' = r.vec
                 /\ IF r.panicked
                    THEN /\ hpc' = "panicked"
                         /\ stdout' = stdout \o
                               << Line("stage", stage.label),
                                  Line("panic", "index out of bounds") >>
                         /\ UNCHANGED <<b_len, out_slice_buf, kvars>>
                    ELSE /\ b_len' = r.len
                         /\ input' = str_of(r.vec, r.len)
                         /\ out_slice_buf' = pool_out_slice_buf
                         /\ stdout' = stdout \o
                               << Line("stage", stage.label),
                                  Line("family", "slices") >>
                         /\ Invoke("slice::std", << >>, << >>)
                         /\ hpc' = "std_first"
    /\ cur_slice_thrpts' = << >>
    /\ cur_compressed_thrpts' = << >>
    /\ UNCHANGED <<tvars, out_slice_cap, features,
                   nightly, asserted, stage_i, case_i, pool_out_slice_buf,
                   out_compressed_buf, test_compressed_buf, slice_thrpts,
                   compressed_thrpts, feat_ok>>

\* the first slice::std has returned: its throughput, and on to the cases
main_std_first ==
    /\ hpc = "std_first" /\ Returned
    /\ stdout' = Append(stdout, Line("thrpt", "std"))
    /\ cur_slice_thrpts' = Append(cur_slice_thrpts, Thrpt("std"))
    /\ case_i' = 0
    /\ hpc' = "slice_cases"
    /\ Resume
    /\ UNCHANGED <<tvars, out_slice_cap, features,
                   nightly, asserted, stage_i, b_vec, b_len, out_slice_buf,
                   pool_out_slice_buf, out_compressed_buf, test_compressed_buf,
                   cur_compressed_thrpts, slice_thrpts, compressed_thrpts,
                   feat_ok>>

\* The head of `for (fn_label, feat_checker, fnc) in slice_bench_cases`: the
\* case skipped, or out_slice_buf cleared and fnc called; the cases
\* exhausted, the second call of slice::std
main_slice_case ==
    /\ hpc = "slice_cases"
    /\ IF case_i < Len(slice_bench_cases)
       THEN LET case == slice_bench_cases[case_i + 1]
                ok == feat_checker(case)
            IN  /\ feat_ok' = [family |-> "slice", stage |-> stage_i,
                               case |-> case_i, result |-> ok]
                /\ IF skips(ok)
                   THEN /\ stdout' = Append(stdout, Line("skipping", case.label))
                        /\ case_i' = case_i + 1
                        /\ UNCHANGED <<hpc, out_slice_buf, kvars>>
                   ELSE /\ out_slice_buf' = clear(out_slice_buf)
                        /\ Invoke(case.fnc, clear(out_slice_buf), << >>)
                        /\ hpc' = "slice_call"
                        /\ UNCHANGED <<input, stdout, case_i>>
       ELSE /\ Invoke("slice::std", << >>, << >>)
            /\ hpc' = "std_again"
            /\ UNCHANGED <<input, stdout, case_i, out_slice_buf, feat_ok>>
    /\ UNCHANGED <<tvars, out_slice_cap, features,
                   nightly, asserted, stage_i, b_vec, b_len,
                   pool_out_slice_buf, out_compressed_buf, test_compressed_buf,
                   cur_slice_thrpts, cur_compressed_thrpts, slice_thrpts,
                   compressed_thrpts>>

\* fnc of a slice case has returned: its throughput
main_slice_timed ==
    /\ hpc = "slice_call" /\ Returned
    /\ out_slice_buf' = out
    /\ out_slice_cap' \in capacity_after(out_slice_cap, out)
    /\ stdout' = Append(stdout, Line("thrpt", slice_bench_cases[case_i + 1].label))
    /\ cur_slice_thrpts' =
         Append(cur_slice_thrpts, Thrpt(slice_bench_cases[case_i + 1].label))
    /\ case_i' = case_i + 1
    /\ hpc' = "slice_cases"
    /\ Resume
    /\ UNCHANGED <<tvars, features, nightly, asserted, stage_i, b_vec, b_len,
                   pool_out_slice_buf, out_compressed_buf, test_compressed_buf,
                   cur_compressed_thrpts, slice_thrpts, compressed_thrpts,
                   feat_ok>>

\* the second slice::std has returned: its throughput, test_compressed_buf
\* cleared, and the call of compressed::iter on it
main_std_again ==
    /\ hpc = "std_again" /\ Returned
    /\ stdout' = stdout \o << Line("thrpt", "std"), Line("family", "compressed") >>
    /\ cur_slice_thrpts' = Append(cur_slice_thrpts, Thrpt("std"))
    /\ test_compressed_buf' = clear_index(test_compressed_buf)
    /\ Invoke("compressed::iter", clear_index(test_compressed_buf), EmptyIndex)
    /\ hpc' = "reference"
    /\ UNCHANGED <<input, tvars, out_slice_cap, features,
                   nightly, asserted, stage_i, case_i, b_vec, b_len,
                   out_slice_buf, pool_out_slice_buf, out_compressed_buf,
                   cur_compressed_thrpts, slice_thrpts, compressed_thrpts,
                   feat_ok>>

\* compressed::iter has filled test_compressed_buf
main_reference ==
    /\ hpc = "reference" /\ Returned
    /\ test_compressed_buf' = out
    /\ case_i' = 0
    /\ hpc' = "compressed_cases"
    /\ Resume
    /\ UNCHANGED <<tvars, out_slice_cap, features,
                   nightly, asserted, stage_i, b_vec, b_len, out_slice_buf,
                   pool_out_slice_buf, out_compressed_buf, cur_slice_thrpts,
                   cur_compressed_thrpts, slice_thrpts, compressed_thrpts,
                   stdout, feat_ok>>

\* The head of `for (fn_label, feat_checker, fnc) in compressed_bench_cases`:
\* the case skipped, or out_compressed_buf cleared and fnc called; the cases
\* exhausted, the end of the stage
main_compressed_case ==
    /\ hpc = "compressed_cases"
    /\ IF case_i < Len(compressed_bench_cases)
       THEN LET case == compressed_bench_cases[case_i + 1]
                ok == feat_checker(case)
            IN  /\ feat_ok' = [family |-> "compressed", stage |-> stage_i,
                               case |-> case_i, result |-> ok]
                /\ IF skips(ok)
                   THEN /\ stdout' = Append(stdout, Line("skipping", case.label))
                        /\ case_i' = case_i + 1
                        /\ UNCHANGED <<hpc, out_compressed_buf, kvars>>
                   ELSE /\ out_compressed_buf' = clear_index(out_compressed_buf)
                        /\ Invoke(case.fnc, clear_index(out_compressed_buf),
                                  EmptyIndex)
                        /\ hpc' = "compressed_call"
                        /\ UNCHANGED <<input, stdout, case_i>>
                /\ UNCHANGED <<pool_out_slice_buf, out_slice_cap, slice_thrpts,
                               compressed_thrpts, stage_i>>
       ELSE /\ pool_out_slice_buf' = reset_vector(out_slice_buf)
            /\ out_slice_cap' = reset_vector_capacity(out_slice_cap)
            /\ slice_thrpts' = Append(slice_thrpts, cur_slice_thrpts)
            /\ compressed_thrpts' = Append(compressed_thrpts, cur_compressed_thrpts)
            /\ stage_i' = stage_i + 1
            /\ hpc' = "stages"
            /\ UNCHANGED <<kvars, stdout, case_i, out_compressed_buf, feat_ok>>
    /\ UNCHANGED <<tvars, features, nightly, asserted, b_vec, b_len, out_slice_buf,
                   test_compressed_buf, cur_slice_thrpts, cur_compressed_thrpts>>

\* fnc of a compressed case has returned: its throughput, and the assert
\* that it filled out_compressed_buf as compressed::iter filled
\* test_compressed_buf
main_compressed_timed ==
    /\ hpc = "compressed_call" /\ Returned
    /\ out_compressed_buf' = out
    /\ cur_compressed_thrpts' =
         Append(cur_compressed_thrpts,
                Thrpt(compressed_bench_cases[case_i + 1].label))
    /\ asserted' = Append(asserted,
                          [stage |-> benchmark_stages[stage_i + 1].label,
                           fn_label |-> compressed_bench_cases[case_i + 1].label,
                           eq |-> (out = test_compressed_buf)])
    /\ IF out = test_compressed_buf
       THEN /\ stdout' = Append(stdout,
                    Line("thrpt", compressed_bench_cases[case_i + 1].label))
            /\ case_i' = case_i + 1
            /\ hpc' = "compressed_cases"
       ELSE /\ stdout' = stdout \o
                  << Line("thrpt", compressed_bench_cases[case_i + 1].label),
                     [kind |-> "panic",
                      label |-> compressed_bench_cases[case_i + 1].label,
                      cells |-> << benchmark_stages[stage_i + 1].label >>] >>
            /\ hpc' = "panicked"
            /\ UNCHANGED case_i
    /\ Resume
    /\ UNCHANGED <<tvars, out_slice_cap, features,
                   nightly, stage_i, b_vec, b_len, out_slice_buf,
                   pool_out_slice_buf, test_compressed_buf, cur_slice_thrpts,
                   slice_thrpts, compressed_thrpts, feat_ok>>

\* a row of a table: the cells vec[k] of the stages' vectors, k from 0
Row(algo, thrpts, k) ==
    [kind |-> "row", label |-> algo,
     cells |-> [s \in 1..Len(thrpts) |-> thrpts[s][k + 1]]]

\* vec[k] of the first stage's vector is out of bounds
RowPanics(thrpts, k) == Len(thrpts) > 0 /\ k >= Len(thrpts[1])

\* The rows of a table, algorithm idx read at vec[idx + shift]: the rows
\* before the first one whose index is out of bounds
Rows(cases, thrpts, shift) ==
    LET bad == {i \in 1..Len(cases) : RowPanics(thrpts, i - 1 + shift)}
        n == IF bad = {} THEN Len(cases)
             ELSE (CHOOSE i \in bad : \A j \in bad : i <= j) - 1
    IN  [i \in 1..n |-> Row(cases[i].label, thrpts, i - 1 + shift)]

\* the stages exhausted: the two markdown tables
main_tables ==
    /\ hpc = "stages" /\ stage_i = Len(benchmark_stages)
    /\ LET slice_rows == Rows(slice_bench_cases, slice_thrpts, 1)
           compressed_rows == Rows(compressed_bench_cases, compressed_thrpts, 0)
           slice_table == << Line("table", "Slice"), Row("std", slice_thrpts, 0) >>
                          \o slice_rows
       IN  IF Len(slice_rows) < Len(slice_bench_cases)
           THEN /\ stdout' = stdout \o slice_table
                      \o << Line("panic", "index out of bounds") >>
                /\ hpc' = "panicked"
           ELSE IF Len(compressed_rows) < Len(compressed_bench_cases)
           THEN /\ stdout' = stdout \o slice_table
                      \o << Line("table", "Compressed format") >>
                      \o compressed_rows
                      \o << Line("panic", "index out of bounds") >>
                /\ hpc' = "panicked"
           ELSE /\ stdout' = stdout \o slice_table
                      \o << Line("table", "Compressed format") >>
                      \o compressed_rows
                /\ hpc' = "exit"
    /\ UNCHANGED <<kvars, tvars, out_slice_cap, features,
                   nightly, asserted, stage_i, case_i, b_vec, b_len,
                   out_slice_buf, pool_out_slice_buf, out_compressed_buf,
                   test_compressed_buf, cur_slice_thrpts, cur_compressed_thrpts,
                   slice_thrpts, compressed_thrpts, feat_ok>>

-----------------------------------------------------------------------------
(* The harness on a set of CPUs and builds *)

X86Features == {"avx2", "bmi1", "popcnt", "avx512f", "avx512bw", "avx512vbmi2"}

\* what the CPU of a run reports
CpuFeatureSets ==
    { {},
      {"popcnt"},
      {"avx2", "popcnt"},
      {"avx2", "bmi1", "popcnt"},
      {"popcnt", "avx512f", "avx512bw", "avx512vbmi2"},
      X86Features }

InitHarness ==
    /\ hpc = "stages"
    /\ features \in CpuFeatureSets
    /\ nightly \in BOOLEAN
    /\ stage_i = 0
    /\ case_i = 0
    /\ b_vec = Dense(ScratchLen, 0..(ScratchLen - 1))
    /\ b_len = 0
    /\ out_slice_buf = << >>
    /\ pool_out_slice_buf = [i \in 1..Cap64M |-> View(0, 0)]
    /\ out_slice_cap = Len(pool_out_slice_buf)
    /\ out_compressed_buf = EmptyIndex
    /\ test_compressed_buf = EmptyIndex
    /\ cur_slice_thrpts = << >>
    /\ cur_compressed_thrpts = << >>
    /\ slice_thrpts = << >>
    /\ compressed_thrpts = << >>
    /\ stdout = << >>
    /\ feat_ok = [family |-> "none", stage |-> 0, case |-> 0, result |-> TRUE]
    /\ asserted = << >>
    /\ OneCall
    /\ fn = "none"
    /\ input = str_of(b_vec, 0)
    /\ pc = "idle"
    /\ out = << >>
    /\ out0 = << >>
    /\ fresh = << >>
    /\ chunk_i = 0
    /\ write_i = 0
    /\ line_start = 0
    /\ blk = 0
    /\ offset_v = 0
    /\ iter_count = 0
    /\ iter_i = 0
    /\ out_arr = << >>
    /\ reserved = 0
    /\ ovf = FALSE
    /\ wrapped = {}

NextHarness ==
    \/ main_stage
    \/ main_std_first
    \/ main_slice_case
    \/ main_slice_timed
    \/ main_std_again
    \/ main_reference
    \/ main_compressed_case
    \/ main_compressed_timed
    \/ main_tables
    \/ NextSlice
    \/ NextCompressed

SpecHarness == InitHarness /\ [][NextHarness]_vars

-----------------------------------------------------------------------------
(* Claims about the harness *)

\* main has just called the fnc of a bench case
CaseCalled == hpc' \in {"slice_call", "compressed_call"} /\ hpc' # hpc

\* main has just evaluated a feat_checker(), and it returned false
CheckedFalse == feat_ok' # feat_ok /\ ~feat_ok'.result

\* C10: the harness never invokes a kernel whose feature predicate returned
\* false: a step of main that calls the fnc of a bench case is one in which
\* the feat_checker() of that case, of that iteration, returned true; and a
\* step in which a feat_checker() returned false prints the skipping line of
\* that case and nothing else, calls nothing, and goes on to the next case.
C10_NeverCallsUnsupported ==
    [][ /\ CaseCalled =>
             /\ feat_ok' # feat_ok
             /\ feat_ok'.result
             /\ feat_ok'.stage = stage_i /\ feat_ok'.case = case_i
             /\ feat_ok'.family = (IF hpc' = "slice_call" THEN "slice"
                                   ELSE "compressed")
        /\ CheckedFalse =>
             /\ \E l \in {c.label : c \in {slice_bench_cases[i] :
                                             i \in 1..Len(slice_bench_cases)}
                                      \cup {compressed_bench_cases[i] :
                                             i \in 1..Len(compressed_bench_cases)}} :
                   stdout' = Append(stdout, Line("skipping", l))
             /\ case_i' = case_i + 1
             /\ hpc' = hpc
             /\ UNCHANGED <<kvars, stage_i, out_slice_buf, out_compressed_buf,
                            test_compressed_buf, cur_slice_thrpts,
                            cur_compressed_thrpts>>
      ]_vars

\* a kernel behind a CPU check is running, cases before it having been skipped
C10_Witness ==
    /\ hpc = "compressed_call"
    /\ fn = "compressed::x86_64::sse42_unrollx4_interleavex2"
    /\ feat_ok.result
    /\ \E i \in 1..Len(stdout) :
          stdout[i] = Line("skipping", "avx2_unrollx2")


\* the rows of the tables that main has printed
TableRows == SelectSeq(stdout, LAMBDA l : l.kind = "row")

\* C11 as stated: a missing CPU feature is not fatal: whatever the feature
\* predicates return, the run does not abort, and once it has ended it has
\* printed both tables, one row per registered kernel (and the std row of
\* the slice table), one cell per stage.
C11_MissingFeatureNotFatal ==
    /\ hpc # "panicked"
    /\ hpc = "exit" =>
         /\ Len(TableRows) =
              1 + Len(slice_bench_cases) + Len(compressed_bench_cases)
         /\ \A i \in 1..Len(TableRows) :
              Len(TableRows[i].cells) = Len(benchmark_stages)


\* the last assert! evaluated by main failed
AssertFailed == asserted # << >> /\ ~asserted[Len(asserted)].eq

\* the message of the failed assert!, naming the kernel and the stage
AssertMessage(a) ==
    [kind |-> "panic", label |-> a.fn_label, cells |-> << a.stage >>]

SpareOf(f) ==
    IF f \in SliceFns THEN {View(0, 0), View(7, 3)} ELSE {Uninit, 43690}

\* the empty output of the family of f
EmptyOf(f) == IF f \in SliceFns THEN << >> ELSE EmptyIndex

\* Inputs of both families: short lines across the chunk boundaries, more
\* than a window of newlines, and 128-byte chunks whose second 64-byte stride
\* has fewer newlines than the first, more, and none
TwiceInputs ==
    {Embed(off, b, suf) :
        off \in {0, 127}, b \in {<<NL>>, <<PAYLOAD, NL>>, <<NL, NL, PAYLOAD>>},
        suf \in {0, 130}}
    \cup {Dense(330, {}), Dense(600, {0, 1, 2, 70, 300})}
    \cup {Sparse(256, 0..63),
          Sparse(400, (0..40) \cup {64, 65} \cup (128..140) \cup (200..260))}

\* `buf.clear(); f(input, &mut buf)` once f has returned
call_again ==
    /\ Done
    /\ run_i = 1
    /\ run_i' = 2
    /\ first_out' = [out |-> out, spare |-> spare]
    /\ spare' \in SpareOf(fn)
    /\ UNCHANGED <<const_M, const_N>>
    /\ Invoke(fn, EmptyOf(fn), EmptyOf(fn))
    /\ UNCHANGED <<input, hvars>>

InitTwice ==
    /\ fn \in SliceFns \cup CompressedFns
    /\ input \in TwiceInputs
    /\ out0 = EmptyOf(fn)
    /\ out = out0
    /\ fresh = out0
    /\ pc = Entry(fn)
    /\ chunk_i = 0
    /\ write_i = 0
    /\ line_start = 0
    /\ blk = 0
    /\ offset_v = 0
    /\ iter_count = 0
    /\ iter_i = 0
    /\ out_arr = <<>>
    /\ reserved = 0
    /\ ovf = FALSE
    /\ wrapped = {}
    /\ HarnessIdle
    /\ spare \in SpareOf(fn)
    /\ run_i = 1
    /\ first_out = << >>
    /\ const_M = 0
    /\ const_N = 0

NextTwice == call_again \/ NextSlice \/ NextCompressed

SpecTwice == InitTwice /\ [][NextTwice]_vars

\* C13: a function called twice on the same input, each time on an emptied
\* output, returns the same output both times, whatever the bit scan of zero
\* returned in either call and whatever the spare capacity held before it.
C13_SameOutputTwice == (run_i = 2 /\ Done) => out = first_out.out

\* an interleaved kernel has returned from its second call, made on spare
\* capacity that held something else than at the first, and its window has
\* slots past the committed ones
C13_Witness ==
    /\ run_i = 2 /\ Done
    /\ fn \in InterleaveFns
    /\ spare # first_out.spare
    /\ out.lows # << >>
    /\ Len(out_arr) > write_i


\* the length of the output: of the Vec of views, or of lows
OutLen == IF fn \in SliceFns THEN Len(out) ELSE Len(out.lows)

\* C14: in every unroll kernel of both families every store to the window
\* out_arr goes to a slot below the reserved size (256, or iter_count * 128
\* in an interleaved kernel; both 32-lane stores of avx512_compress end at or
\* before slot 256), the cursor write_i stays within the window, and set_len
\* commits the old length plus write_i, at most the old length plus the
\* window.
C14_StoresInsideWindow ==
    /\ [](/\ Len(out_arr) <= reserved
          /\ pc = "inner" => write_i <= reserved)
    /\ [][pc = "inner" /\ pc' = "outer" =>
            /\ OutLen' = OutLen + write_i
            /\ OutLen' <= OutLen + reserved
         ]_vars

\* avx512_compress has filled its window to the last slot with the second
\* store of a chunk of 64 newlines
C14_Witness ==
    /\ fn = "compressed::x86_64::avx512_compress"
    /\ pc = "inner"
    /\ write_i = 256
    /\ Len(out_arr) = reserved


\* the offsets in block b of the newlines of the 64 input bytes from byte
\* `from` of the block on, in increasing order
StrideOffsets(b, from) ==
    LET lo == b * BlockSize + from
        at == Sorted({p \in input.nl : lo <= p /\ p < lo + 64}, lo, lo + 64)
    IN  [j \in 1..Len(at) |-> at[j] - b * BlockSize]

\* the slots below write_i hold newline offsets of the block, increasing
ValidBelowCursor ==
    \A k \in 1..write_i :
        /\ blk * BlockSize + out_arr[k] \in input.nl
        /\ k > 1 => out_arr[k - 1] < out_arr[k]

\* C15: a pass of an interleaved kernel that starts with the cursor at s
\* leaves the offsets of the newlines of the first 64-byte stride in the slots
\* from s, those of the second stride right after them, each in increasing
\* order, and write_i at s plus both counts. No slot below s changes: what is
\* written for an exhausted mask2 lands at or past the new write_i. What
\* set_len commits, the slots below write_i, are offsets of newlines only.
C15_InterleavedLayout ==
    /\ [](fn \in InterleaveFns /\ pc = "inner" =>
            /\ Len(out_arr) >= write_i
            /\ ValidBelowCursor)
    /\ [][(fn \in InterleaveFns /\ pc = "inner") =>
            LET A == StrideOffsets(blk, chunk_i * 128)
                B == StrideOffsets(blk, chunk_i * 128 + 64)
            IN  /\ iter_i' = iter_i + 1 =>
                     /\ write_i' = write_i + Len(A) + Len(B)
                     /\ Len(out_arr') >= write_i'
                     /\ \A j \in 1..Len(A) : out_arr'[write_i + j] = A[j]
                     /\ \A j \in 1..Len(B) : out_arr'[write_i + Len(A) + j] = B[j]
                     /\ \A k \in 1..write_i : out_arr'[k] = out_arr[k]
                /\ iter_i' = iter_i =>
                     out'.lows = out.lows \o SubSeq(out_arr, 1, write_i)
         ]_vars

\* the first pass left 39 values of an exhausted mask2 past the cursor, and
\* the second pass has written its 69 offsets over all of them
C15_Witness ==
    /\ fn \in InterleaveFns
    /\ pc = "inner"
    /\ input = Sparse(400, (0..40) \cup {64, 65} \cup (128..140) \cup (200..260))
    /\ iter_i = 2
    /\ write_i = 43 + 69
    /\ Len(out_arr) = write_i


\* C16: a chunk step of avx512_compress with the cursor at write_i stores
\* exactly the 32 slots from write_i, and, only if the chunk has more than 32
\* newlines, the 32 slots from write_i + 32 as well; afterwards the slots from
\* write_i hold the offsets in the block of the chunk's newlines, in
\* increasing order, and write_i has advanced by their number. The lanes
\* past them are garbage that stays at or past write_i: set_len commits the
\* slots below write_i, which are offsets of newlines only.
C16_CompressStores ==
    /\ [](fn = "compressed::x86_64::avx512_compress" /\ pc = "inner" =>
            /\ Len(out_arr) >= write_i
            /\ ValidBelowCursor)
    /\ [][(fn = "compressed::x86_64::avx512_compress" /\ pc = "inner") =>
            LET m == StrideOffsets(blk, chunk_i * 64)
                stored == IF Len(m) > 32 THEN 64 ELSE 32
            IN  /\ chunk_i' = chunk_i + 1 =>
                     /\ write_i' = write_i + Len(m)
                     /\ Len(out_arr') = (IF Len(out_arr) > write_i + stored
                                         THEN Len(out_arr) ELSE write_i + stored)
                     /\ \A j \in 1..Len(m) : out_arr'[write_i + j] = m[j]
                     /\ \A k \in 1..Len(out_arr) :
                            (k <= write_i \/ k > write_i + stored) => out_arr'[k] = out_arr[k]
                /\ chunk_i' = chunk_i =>
                     out'.lows = out.lows \o SubSeq(out_arr, 1, write_i)
         ]_vars

\* the chunk of 41 newlines took both stores and left garbage in the slots
\* from 41 on; the chunk of 2 newlines took one store, written at slot 41 over
\* that garbage and reaching slot 72
C16_Witness ==
    /\ fn = "compressed::x86_64::avx512_compress"
    /\ pc = "inner"
    /\ input = Sparse(400, (0..40) \cup {64, 65} \cup (128..140) \cup (200..260))
    /\ chunk_i = 2
    /\ write_i = 43
    /\ Len(out_arr) = 41 + 32


\* ------------------------------------------------------------------------
\* Termination. The program is sequential: it takes its next step as long as
\* the second call has not returned.

\* the caller has nothing left to do
Returned2 == Done /\ run_i = 2

\* Weak fairness of NextTwice, with `the second call has returned` for `no
\* step is enabled`: a step of NextTwice is enabled in every other reachable
\* state.
Runs == []<><<NextTwice>>_vars \/ <>[]Returned2

SpecTwiceFair == SpecTwice /\ Runs

\* CHUNK_SIZE of f: the bytes one chunk step consumes
ChunkWidth(f) ==
    IF f \in {"slice::x86_64::sse2", "slice::x86_64::sse2_unsafe",
              "slice::x86_64::sse2_unroll", "compressed::x86_64::sse2",
              "compressed::x86_64::sse2_unroll"} THEN 16
    ELSE IF f \in {"slice::x86_64::avx2", "slice::x86_64::avx2_unsafe",
                   "slice::x86_64::avx2_unroll",
                   "compressed::x86_64::avx2_unroll"} THEN 32
    ELSE IF f \in InterleaveFns THEN 128
    ELSE 64

\* stop_chunk_i: the whole chunks of the input, or of the block
StopChunk ==
    IF fn \in SliceFns THEN input.len \div ChunkWidth(fn)
    ELSE block_len(input, blk) \div ChunkWidth(fn)

\* C17: every call returns, the second as the first. chunk_i moves one chunk
\* at a time and never past stop_chunk_i, so a call makes at most len / CHUNK_SIZE chunk steps before
\* the tail; a pass of an outer loop starts with write_i = 0 and a chunk left,
\* and at write_i = 0 the inner loop takes a chunk rather than ending the
\* pass, so every pass consumes at least one chunk.
C17_KernelsTerminate ==
    /\ <>Returned2
    /\ [](pc \in {"chunks", "outer", "inner"} => chunk_i <= StopChunk)
    /\ [][/\ chunk_i' # chunk_i => \/ chunk_i' = chunk_i + 1
                                  \/ (pc \in {"blocks", "done"} /\ chunk_i' = 0)
          /\ (pc = "outer" /\ pc' = "inner") =>
                /\ write_i' = 0
                /\ chunk_i' < StopChunk
                /\ fn \in InterleaveFns => (iter_i' = 0 /\ iter_count' >= 1)
          /\ (/\ pc = "inner"
              /\ IF fn \in InterleaveFns THEN iter_i = 0
                 ELSE (write_i = 0 /\ chunk_i < StopChunk)) =>
                (chunk_i' = chunk_i + 1 /\ pc' = "inner")
         ]_vars

\* a kernel with an outer loop has returned after more than one pass over an
\* input of more than a window of lines
C17_Witness ==
    /\ Returned2
    /\ fn \in UnrollSliceFns \cup UnrollCompressedFns \cup InterleaveFns
    /\ OutLen > 256
    /\ chunk_i = StopChunk


\* ------------------------------------------------------------------------
\* main: the output handed to a kernel

\* C18: whenever main has called a kernel, the output it passed was empty at
\* the call: out_slice_buf has length 0, out_compressed_buf (and
\* test_compressed_buf, for compressed::iter) has no lows and no high_starts.
C18_OutputEmptyAtCall ==
    /\ hpc = "slice_call" => out0 = << >>
    /\ hpc \in {"compressed_call", "reference"} =>
          (out0.lows = << >> /\ out0.high_starts = << >>)
    /\ (hpc = "slice_call" /\ pc = Entry(fn)) => out_slice_buf = << >>
    /\ (hpc = "compressed_call" /\ pc = Entry(fn)) =>
          (out_compressed_buf.lows = << >> /\ out_compressed_buf.high_starts = << >>)

\* in a later stage, a kernel of each family that is not the first of its
\* loop has returned lines: the buffer it was given held the lines of the
\* call before, and was cleared
C18_Witness ==
    /\ stage_i >= 1
    /\ case_i >= 1
    /\ features = X86Features
    /\ hpc = "compressed_call"
    /\ Done
    /\ out.lows # << >>
    /\ out_slice_buf # << >>


\* ------------------------------------------------------------------------
\* main: the active length of a stage

\* main is inside the stage benchmark_stages[stage_i + 1], whose prep_fn has
\* returned b_len
InStage ==
    hpc \in {"std_first", "slice_cases", "slice_call", "std_again", "reference",
             "compressed_cases", "compressed_call"}

\* C19, as stated: the length every stage's prep_fn returns is at most
\* 256 MiB, a quarter of the 1 GiB buffer, and never the whole buffer.
C19_CappedAsStated ==
    InStage => (b_len * 4 <= b_vec.len /\ b_len < b_vec.len)

\* C19, amended: the six prep_vec_range stages return at most 256 MiB, a
\* quarter of the buffer, and "0-0" at most 64 MiB, a sixteenth; "single
\* line" returns the length of the whole buffer.
C19_CappedButSingleLine ==
    InStage =>
        LET prep == benchmark_stages[stage_i + 1].prep
        IN  /\ prep = "len" => b_len = b_vec.len
            /\ prep = "prep_vec_range" => b_len * 4 <= b_vec.len
            /\ prep = "fill" => b_len * 16 <= b_vec.len

\* main runs the kernels of the stage "0-0" on a sixteenth of the buffer
C19_Witness ==
    /\ hpc = "reference"
    /\ benchmark_stages[stage_i + 1].label = "0-0"
    /\ b_len > 0
    /\ b_len * 16 <= b_vec.len
    /\ b_len = input.len


\* ------------------------------------------------------------------------
\* main: the lines prep_vec_range lays out

\* the payload bytes of the newline-terminated lines of the input, in order:
\* the bytes between a '\n' and the one before it, or the start
PayloadLengths ==
    LET p == Sorted(input.nl, 0, input.len)
    IN  [j \in 1..Len(p) |-> IF j = 1 THEN p[1] ELSE p[j] - p[j - 1] - 1]

\* C20: in a stage prepared by prep_vec_range::<M, N>, whatever order the
\* HashSet iterated in, every newline-terminated line of the active prefix
\* has between M and N payload bytes.
C20_LineLengthsInRange ==
    (InStage /\ benchmark_stages[stage_i + 1].prep = "prep_vec_range") =>
        \A j \in 1..Len(PayloadLengths) :
            /\ benchmark_stages[stage_i + 1].M <= PayloadLengths[j]
            /\ PayloadLengths[j] <= benchmark_stages[stage_i + 1].N


\* ------------------------------------------------------------------------
\* main: the stage "single line"

\* C21: in the stage "single line" the input of the kernels has no '\n'. Its
\* prep_fn writes nothing: the stage is the first, and b is still all 'a'.
C21_SingleLineHasNoNewline ==
    (InStage /\ benchmark_stages[stage_i + 1].label = "single line") =>
        /\ stage_i = 0
        /\ b_vec.nl = {}
        /\ input.nl = {}
        /\ input.len = b_len

\* a compressed kernel has returned from the whole buffer with a block start
\* and no line
C21_Witness ==
    /\ hpc = "compressed_call"
    /\ benchmark_stages[stage_i + 1].label = "single line"
    /\ Done
    /\ input.len = b_vec.len
    /\ out.high_starts # << >>
    /\ out.lows = << >>


\* ------------------------------------------------------------------------
\* main: the pooled Vec of the slice kernels

\* main is at the head of the stage loop, a stage left to run
AtStageStart == hpc = "stages" /\ stage_i < Len(benchmark_stages)

\* C22, as stated: the pooled Vec is empty at the start of every stage.
C22_StartsEveryStageEmpty == AtStageStart => Len(pool_out_slice_buf) = 0

\* C22, amended: reset_vector hands the next stage a Vec of length 0 and of
\* the capacity of its argument, so every stage after the first starts with
\* an empty pooled Vec; the first starts with the vec![""; ..] it was
\* allocated as, all empty strings and no view of any input. The capacity
\* of the pooled allocation never decreases.
C22_ResetKeepsCapacity ==
    /\ [](AtStageStart =>
            /\ stage_i >= 1 => Len(pool_out_slice_buf) = 0
            /\ stage_i = 0 =>
                  /\ Len(pool_out_slice_buf) = out_slice_cap
                  /\ \A k \in 1..Len(pool_out_slice_buf) :
                        pool_out_slice_buf[k] = View(0, 0))
    /\ [][/\ stage_i' # stage_i =>
                /\ pool_out_slice_buf' = << >>
                /\ out_slice_cap' = out_slice_cap
          /\ out_slice_cap' >= out_slice_cap
          /\ out_slice_cap' >= Len(out_slice_buf')
         ]_vars

\* a later stage starts with the pooled Vec empty, the views of the stage
\* before gone, and with the capacity it had grown to
C22_Witness ==
    /\ AtStageStart
    /\ stage_i >= 1
    /\ out_slice_buf # << >>
    /\ pool_out_slice_buf = << >>
    /\ out_slice_cap > Cap64M


-----------------------------------------------------------------------------
(* prep_vec_range called on its own, on buffers of and around the length   *)
(* of its cap and of the length of b, for every M <= N and every order of  *)
(* the HashSet.                                                            *)

\* the most line lengths a call draws
MaxDraws == 5

\* the largest N
MaxN == 17

\* buffers as long as the cap, longer by one, and as long as b; what they
\* hold does not matter to vec.fill(b'a')
PrepBuffers ==
    {Sparse(len, nls) : len \in {Cap256M, Cap256M + 1, ScratchLen},
                        nls \in {{}, {0, 5, Cap256M}}}

InitPrep ==
    /\ hpc = "prep"
    /\ features = {}
    /\ nightly = FALSE
    /\ stage_i = 0
    /\ case_i = 0
    /\ b_len = 0
    /\ out_slice_buf = << >>
    /\ pool_out_slice_buf = << >>
    /\ out_slice_cap = 0
    /\ out_compressed_buf = << >>
    /\ test_compressed_buf = << >>
    /\ cur_slice_thrpts = << >>
    /\ cur_compressed_thrpts = << >>
    /\ slice_thrpts = << >>
    /\ compressed_thrpts = << >>
    /\ stdout = << >>
    /\ feat_ok = [family |-> "none", stage |-> 0, case |-> 0, result |-> TRUE]
    /\ asserted = << >>
    /\ spare = Uninit
    /\ run_i = 1
    /\ first_out = << >>
    /\ \E vec \in PrepBuffers, M \in 0..MaxN, N \in 0..MaxN :
          /\ M <= N /\ M + N > 0
          /\ range_count(M, N, vec) <= MaxDraws
          /\ b_vec = vec
          /\ const_M = M
          /\ const_N = N
    /\ fn = "none"
    /\ input = str_of(b_vec, 0)
    /\ pc = "idle"
    /\ out = << >>
    /\ out0 = << >>
    /\ fresh = << >>
    /\ chunk_i = 0
    /\ write_i = 0
    /\ line_start = 0
    /\ blk = 0
    /\ offset_v = 0
    /\ iter_count = 0
    /\ iter_i = 0
    /\ out_arr = << >>
    /\ reserved = 0
    /\ ovf = FALSE
    /\ wrapped = {}

\* let len = prep_vec_range::<M, N>(&mut b)
prep_call ==
    /\ hpc = "prep"
    /\ \E order \in HashSetOrders(range_count(const_M, const_N, b_vec)) :
          LET r == prep_vec_range(const_M, const_N, b_vec, order)
          IN  /\ b_vec' = r.vec
              /\ IF r.panicked
                 THEN hpc' = "panicked" /\ UNCHANGED b_len
                 ELSE hpc' = "prepared" /\ b_len' = r.len
    /\ UNCHANGED <<kvars, tvars, features, nightly, stage_i, case_i,
                   out_slice_buf, pool_out_slice_buf, out_slice_cap,
                   out_compressed_buf, test_compressed_buf,
                   cur_slice_thrpts, cur_compressed_thrpts, slice_thrpts,
                   compressed_thrpts, stdout, feat_ok, asserted>>

NextPrep == prep_call

SpecPrep == InitPrep /\ [][NextPrep]_vars

\* prep_vec_range has returned or panicked
PrepOver == hpc \in {"prepared", "panicked"}

\* C23: prep_vec_range::<M, N> with M <= N and M + N > 0, called on a
\* buffer longer than its cap, returns without panicking whatever the order
\* of the HashSet; every index it stored a '\n' at, the values idx took, is
\* at most the cap and so inside the buffer.
C23_CursorWithinCap ==
    (PrepOver /\ const_M <= const_N /\ const_M + const_N > 0
              /\ b_vec.len > Cap256M) =>
        /\ hpc = "prepared"
        /\ b_len = Cap256M
        /\ \A idx \in b_vec.nl : idx <= Cap256M /\ idx < b_vec.len

\* a call whose cursor ends on the cap itself, in a buffer one byte longer,
\* with lines of three lengths
C23_Witness ==
    /\ hpc = "prepared"
    /\ b_vec.len = Cap256M + 1
    /\ const_N = const_M + 2
    /\ Cap256M \in b_vec.nl
    /\ Cardinality(b_vec.nl) = 3


-----------------------------------------------------------------------------
(* The 16-bit arithmetic of the compressed kernels *)

\* C24, as stated: no non-wrapping u16 operation of a compressed kernel
\* overflows, and nothing wraps modulo 2^16 but the junk values of the
\* interleaved kernels.
C24_OnlyInterleavedJunkWraps ==
    /\ ~ovf
    /\ wrapped \subseteq {"junk"}
    /\ "junk" \in wrapped => fn \in InterleaveFns

\* C24, amended: no non-wrapping u16 operation of a compressed kernel
\* overflows (chunk_i * W + bit_pos, + 64 for the second stride, and the sum
\* of compressed::tail), and no offset that is stored as valid wraps. What
\* wraps is the junk value of an interleaved kernel, and the running
\* offset_v of avx512_compress after the last chunk of a whole block, which
\* no later pass reads: a pass that reads offset_v finds chunk_i * 64 in it.
C24_CommittedOffsetsDoNotWrap ==
    /\ ~ovf
    /\ wrapped \subseteq {"junk", "offset_v"}
    /\ "junk" \in wrapped => fn \in InterleaveFns
    /\ "offset_v" \in wrapped => fn = "compressed::x86_64::avx512_compress"
    /\ (/\ fn = "compressed::x86_64::avx512_compress"
        /\ pc = "inner"
        /\ chunk_i < block_len(input, blk) \div 64) => offset_v = chunk_i * 64

\* an interleaved kernel returned from an input of a whole block and more:
\* the offset 65535 is in the index, a junk value wrapped on the way, and the
\* tail added offsets to a base beyond the first block
C24_Witness ==
    /\ Done
    /\ fn \in InterleaveFns
    /\ "junk" \in wrapped
    /\ input.len > BlockSize
    /\ \E i \in 1..Len(out.lows) : out.lows[i] = 65535
    /\ \E p \in input.nl : p >= and_not(input.len, 127)

====
